---- MODULE Spec2Model ----
(***************************************************************************)
(* Model of the fast-monitoring agent (swf_fastmon_agent): the             *)
(* sampling-and-registration pipeline, its two scheduling modes and the    *)
(* optional workflow-stage tracking; and of the statistics of the display *)
(* client (swf_fastmon_client).                                            *)
(*                                                                         *)
(* Encoding of Python values:                                              *)
(*  - a dict is a TLA+ function from key strings to values; d.get(k) is    *)
(*    Get(d, k) and yields None for a missing key; {} is EmptyDict;        *)
(*  - None is the string "None"; a size_bytes that is not a number (JSON   *)
(*    null) is NonNumeric;                                                 *)
(*  - fractions are integers in percent (0.15 is 15), the Gaussian factor  *)
(*    is an integer in percent (1.0 is 100);                               *)
(*  - a TF filename f"{base}_tf_{seq:03d}.tf" is the pair <<stf filename,  *)
(*    seq>>: the STF name it was built from and the sequence number;       *)
(*  - the catalog (call_monitor_api) and the broker (send_message) are     *)
(*    black boxes: every call either returns or raises, chosen by the      *)
(*    environment (env);                                                   *)
(*  - the process-wide random source is the variable rng, a position in    *)
(*    JitterTable that every random.gauss() call advances.                 *)
(***************************************************************************)
EXTENDS Integers, Sequences, FiniteSets, TLC

VARIABLES
    mode,                    \* "message" | "continuous" (FASTMON_MODE, main.py:323); "unit"; "client"
    config,                  \* self.config
    track_workflow,          \* FASTMON_TRACK_WORKFLOW == 'true'
    running,                 \* self.running
    stf_messages_processed,  \* self.stf_messages_processed
    files_processed,         \* self.files_processed
    processing_stats,        \* self.processing_stats
    rng,                     \* state of the process-wide random source
    pc,                      \* position of the agent: of the listener or of the loop
    cycle,                   \* locals of the scan cycle in progress
    api,                     \* catalog calls issued by the handler that ran last
    sent,                    \* broker sends attempted by the handler that ran last
    status,                  \* report_agent_status calls of the handler that ran last
    logs,                    \* error / warning log entries of the handler that ran last
    last,                    \* what the last handler was given and what it returned
    catalog,                 \* what the catalog holds: run numbers, number of STF records
    scans,                   \* scan cycles started so far
    unit,                    \* last direct application of a utility function
    client                   \* the display client (FastMonitoringClient): its statistics

vars == <<mode, config, track_workflow, running, stf_messages_processed,
          files_processed, processing_stats, rng, pc, cycle, api, sent, status,
          logs, last, catalog, scans, unit, client>>

(***************************************************************************)
(* Bounds of the model.                                                    *)
(***************************************************************************)
MaxTfPerStf == 2
MaxEvents == 2
MaxScans == 2

(***************************************************************************)
(* Python values.                                                          *)
(***************************************************************************)
None == "None"
EmptyDict == <<>>
NonNumeric == 0 - 1
NotAMapping == [not_a_mapping |-> TRUE]
AgentName == "fastmon-agent"
StageId == "stage-1"

Get(d, k) == IF k \in DOMAIN d THEN d[k] ELSE None
GetOr(d, k, default) == IF k \in DOMAIN d THEN d[k] ELSE default
IsMapping(d) == d # NotAMapping
\* truth value of a string-or-None value: None and '' are falsy
Truthy(v) == v # None /\ v # ""
\* truth value of a dict
NonEmpty(d) == DOMAIN d # {}
\* int(x) of a quotient: truncation toward zero
TruncDiv(a, b) == IF a >= 0 THEN a \div b ELSE 0 - ((0 - a) \div b)

(***************************************************************************)
(* random.gauss(1.0, 0.1), in percent.  The table holds the draws of the   *)
(* generator in order; a draw far in the lower tail is negative.           *)
(***************************************************************************)
JitterTable == <<100, 90, 0 - 20>>
Gauss(r) == JitterTable[r]
NextRng(r) == (r % Len(JitterTable)) + 1
RECURSIVE RngAfter(_, _)
RngAfter(r, n) == IF n = 0 THEN r ELSE RngAfter(NextRng(r), n - 1)

(***************************************************************************)
(* FileStatus and the defaults of simulate_tf_subsamples.                  *)
(***************************************************************************)
REGISTERED == "registered"
DefaultTfFilesPerStf == 2
DefaultTfSizeFractionPct == 15
DefaultTfSequenceStart == 1

(***************************************************************************)
(* A catalog call as the agent issues it, with what the catalog answered.  *)
(***************************************************************************)
Call(method, path, id, body, ok) ==
    [method |-> method, path |-> path, id |-> id, body |-> body, ok |-> ok]

(***************************************************************************)
(* simulate_tf_subsamples                                                  *)
(***************************************************************************)
\* a variant that numbers the descriptors from the offset plus one
TfMetadata_from_one(stf_file, config_, agent_name, i, r) ==
    LET tf_size_fraction == GetOr(config_, "tf_size_fraction", DefaultTfSizeFractionPct)
        sequence_number == GetOr(config_, "tf_sequence_start", DefaultTfSequenceStart) + i + 1
        stf_size == GetOr(stf_file, "size_bytes", 0)
    IN [tf_filename |-> <<GetOr(stf_file, "filename", "unknown"), sequence_number>>,
        file_size_bytes |-> TruncDiv(stf_size * tf_size_fraction * Gauss(r), 10000),
        sequence_number |-> sequence_number,
        stf_file_id |-> Get(stf_file, "file_id"),
        stf_parent |-> Get(stf_file, "filename"),
        metadata |-> [simulation |-> TRUE,
                      created_from |-> Get(stf_file, "filename"),
                      tf_size_fraction |-> tf_size_fraction,
                      agent_name |-> agent_name,
                      state |-> Get(stf_file, "state"),
                      substate |-> Get(stf_file, "substate"),
                      start |-> Get(stf_file, "start"),
                      end |-> Get(stf_file, "end")]]
TfMetadata(stf_file, config_, agent_name, i, r) ==
    LET tf_size_fraction == GetOr(config_, "tf_size_fraction", DefaultTfSizeFractionPct)
        sequence_number == GetOr(config_, "tf_sequence_start", DefaultTfSequenceStart) + i
        stf_size == GetOr(stf_file, "size_bytes", 0)
    IN [tf_filename |-> <<GetOr(stf_file, "filename", "unknown"), sequence_number>>,
        file_size_bytes |-> TruncDiv(stf_size * tf_size_fraction * Gauss(r), 10000),
        sequence_number |-> sequence_number,
        stf_file_id |-> Get(stf_file, "file_id"),
        stf_parent |-> Get(stf_file, "filename"),
        metadata |-> [simulation |-> TRUE,
                      created_from |-> Get(stf_file, "filename"),
                      tf_size_fraction |-> tf_size_fraction,
                      agent_name |-> agent_name,
                      state |-> Get(stf_file, "state"),
                      substate |-> Get(stf_file, "substate"),
                      start |-> Get(stf_file, "start"),
                      end |-> Get(stf_file, "end")]]

\* the size product raises TypeError on a size that is no number; it is
\* evaluated in the loop body only, and before random.gauss is called
SimulationRaises(stf_file, config_) ==
    /\ GetOr(config_, "tf_files_per_stf", DefaultTfFilesPerStf) > 0
    /\ GetOr(stf_file, "size_bytes", 0) = NonNumeric

simulate_tf_subsamples(stf_file, config_, agent_name, r) ==
    LET tf_files_per_stf == GetOr(config_, "tf_files_per_stf", DefaultTfFilesPerStf)
    IN IF SimulationRaises(stf_file, config_)
       THEN [tf_subsamples |-> <<>>, errors |-> 1, rng |-> r]
       ELSE [tf_subsamples |->
                 [k \in 1..tf_files_per_stf |->
                     TfMetadata(stf_file, config_, agent_name, k - 1, RngAfter(r, k - 1))],
             errors |-> 0,
             rng |-> RngAfter(r, tf_files_per_stf)]

(***************************************************************************)
(* record_tf_file.  outcome is what the catalog does with the POST:        *)
(* "ok" returns the created record, "postfail" raises.  The handler of the *)
(* try block formats tf_metadata['tf_filename'] into its log line, so a    *)
(* descriptor without that key raises KeyError again, out of the function. *)
(***************************************************************************)
\* a variant that refers to the parent by its filename
TfFileData_by_filename(tf_metadata) ==
    [stf_file |-> Get(tf_metadata, "stf_parent"),
     tf_filename |-> tf_metadata["tf_filename"],
     file_size_bytes |-> tf_metadata["file_size_bytes"],
     status |-> REGISTERED,
     metadata |-> GetOr(tf_metadata, "metadata", EmptyDict)]
TfFileData(tf_metadata) ==
    [stf_file |-> Get(tf_metadata, "stf_file_id"),
     tf_filename |-> tf_metadata["tf_filename"],
     file_size_bytes |-> tf_metadata["file_size_bytes"],
     status |-> REGISTERED,
     metadata |-> GetOr(tf_metadata, "metadata", EmptyDict)]

\* the record the catalog returns for a created FastMonFile
TfFileCreated(tf_file_data) == [tf_file_id |-> "tf-uuid"] @@ tf_file_data

record_tf_file(tf_metadata, outcome) ==
    IF "tf_filename" \notin DOMAIN tf_metadata
    THEN [result |-> EmptyDict, raised |-> TRUE, errors |-> 0, calls |-> <<>>]
    ELSE IF "file_size_bytes" \notin DOMAIN tf_metadata
    THEN [result |-> EmptyDict, raised |-> FALSE, errors |-> 1, calls |-> <<>>]
    ELSE IF outcome = "postfail"
    THEN [result |-> EmptyDict, raised |-> FALSE, errors |-> 1,
          calls |-> <<Call("POST", "/fastmon-files/", None, TfFileData(tf_metadata), FALSE)>>]
    ELSE [result |-> TfFileCreated(TfFileData(tf_metadata)), raised |-> FALSE, errors |-> 0,
          calls |-> <<Call("POST", "/fastmon-files/", None, TfFileData(tf_metadata), TRUE)>>]

(***************************************************************************)
(* create_tf_message and send_tf_file_notification.  outcome "sendfail"    *)
(* is send_message raising; the exception is logged and swallowed.         *)
(***************************************************************************)
\* a variant that takes the run from the wrong key of the event
create_tf_message_other_run_key(tf_file, stf_file, agent_name) ==
    [msg_type |-> "tf_file_registered",
     processed_by |-> agent_name,
     tf_file_id |-> Get(tf_file, "tf_file_id"),
     tf_filename |-> Get(tf_file, "tf_filename"),
     file_size_bytes |-> Get(tf_file, "file_size_bytes"),
     stf_filename |-> Get(stf_file, "stf_filename"),
     run_number |-> Get(stf_file, "run_number"),
     status |-> Get(tf_file, "status")]
create_tf_message(tf_file, stf_file, agent_name) ==
    [msg_type |-> "tf_file_registered",
     processed_by |-> agent_name,
     tf_file_id |-> Get(tf_file, "tf_file_id"),
     tf_filename |-> Get(tf_file, "tf_filename"),
     file_size_bytes |-> Get(tf_file, "file_size_bytes"),
     stf_filename |-> Get(stf_file, "stf_filename"),
     run_number |-> Get(stf_file, "run_id"),
     status |-> Get(tf_file, "status")]

\* a variant that swallows a failed send without logging it
send_tf_file_notification_silent(tf_file, stf_file, outcome) ==
    [sends |-> <<[message |-> create_tf_message(tf_file, stf_file, AgentName),
                  ok |-> outcome # "sendfail"]>>,
     errors |-> 0]
send_tf_file_notification(tf_file, stf_file, outcome) ==
    [sends |-> <<[message |-> create_tf_message(tf_file, stf_file, AgentName),
                  ok |-> outcome # "sendfail"]>>,
     errors |-> IF outcome = "sendfail" THEN 1 ELSE 0]

(***************************************************************************)
(* The registration loop of sample_timeframes (main.py:225-233), from      *)
(* descriptor i on.  acc carries the locals and what was issued so far.    *)
(***************************************************************************)
RECURSIVE RegisterLoop(_, _, _, _, _)
RegisterLoop(tf_subsamples, i, message_data, tf_env, acc) ==
    IF i > Len(tf_subsamples) THEN acc
    ELSE LET rec == record_tf_file(tf_subsamples[i], tf_env[i])
             note == send_tf_file_notification(rec.result, message_data, tf_env[i])
             made == NonEmpty(rec.result)
         IN IF rec.raised
            THEN [acc EXCEPT !.raised = TRUE,
                             !.api = @ \o rec.calls,
                             !.errors = @ + rec.errors]
            ELSE RegisterLoop(tf_subsamples, i + 1, message_data, tf_env,
                   [acc EXCEPT
                      !.api = @ \o rec.calls,
                      !.errors = @ + rec.errors + (IF made THEN note.errors ELSE 0),
                      !.sent = IF made THEN @ \o note.sends ELSE @,
                      !.tf_files_created = IF made THEN @ + 1 ELSE @,
                      !.tf_files_registered = Append(@, rec.result)])

(***************************************************************************)
(* sample_timeframes.  env is what the catalog and the broker do with this *)
(* event's calls: env.stage is the answer to POST /workflow-stages/        *)
(* ("ok": a record with an id, "noid": a record without one, "fail": an    *)
(* exception), env.processing and env.complete say whether the two PATCHes *)
(* return, env.tf[i] is the fate of descriptor i ("ok", "postfail": the    *)
(* POST /fastmon-files/ raises, "sendfail": send_message raises).          *)
(* The result holds what the call issued and logged, its return value      *)
(* (returned) or that it raised, and the random source after it.           *)
(***************************************************************************)
\* a variant that lists an entry for every descriptor, registered or not
TfFilenames_all(tf_files_registered) ==
    [k \in 1..Len(tf_files_registered) |-> Get(tf_files_registered[k], "tf_filename")]
RECURSIVE TfFilenames(_)
TfFilenames(tf_files_registered) ==
    IF tf_files_registered = <<>> THEN <<>>
    ELSE (IF NonEmpty(Head(tf_files_registered))
          THEN <<Get(Head(tf_files_registered), "tf_filename")>> ELSE <<>>)
         \o TfFilenames(Tail(tf_files_registered))

Outcome0 ==
    [raised |-> FALSE, api |-> <<>>, sent |-> <<>>, errors |-> 0, warnings |-> 0,
     tf_files_created |-> 0, tf_files_registered |-> <<>>]

\* a variant that creates the stage and leaves it at fastmon_received
TrackStart_no_processing(message_data, track, env) ==
    LET workflow_id == Get(message_data, "workflow_id")
        post(ok) == Call("POST", "/workflow-stages/", None,
                         [workflow |-> workflow_id, agent_name |-> AgentName,
                          agent_type |-> "fastmon", status |-> "fastmon_received",
                          input_message |-> message_data], ok)
    IN IF ~(Truthy(workflow_id) /\ track)
       THEN [stage_id |-> None, calls |-> <<>>, warnings |-> 0]
       ELSE IF env.stage = "fail"
       THEN [stage_id |-> None, calls |-> <<post(FALSE)>>, warnings |-> 1]
       ELSE [stage_id |-> IF env.stage = "ok" THEN StageId ELSE None,
             calls |-> <<post(TRUE)>>, warnings |-> 0]
\* a variant that tracks every event with a workflow id, whatever the flag
TrackStart_ignores_flag(message_data, track, env) ==
    LET workflow_id == Get(message_data, "workflow_id")
        post(ok) == Call("POST", "/workflow-stages/", None,
                         [workflow |-> workflow_id, agent_name |-> AgentName,
                          agent_type |-> "fastmon", status |-> "fastmon_received",
                          input_message |-> message_data], ok)
        patch(id) == Call("PATCH", "/workflow-stages/{id}/", id,
                          [status |-> "fastmon_processing"], TRUE)
    IN IF ~Truthy(workflow_id)
       THEN [stage_id |-> None, calls |-> <<>>, warnings |-> 0]
       ELSE [stage_id |-> StageId, calls |-> <<post(TRUE), patch(StageId)>>,
             warnings |-> 0]
\* main.py:193-218: the stage is created and moved to fastmon_processing
TrackStart(message_data, track, env) ==
    LET workflow_id == Get(message_data, "workflow_id")
        post(ok) == Call("POST", "/workflow-stages/", None,
                         [workflow |-> workflow_id, agent_name |-> AgentName,
                          agent_type |-> "fastmon", status |-> "fastmon_received",
                          input_message |-> message_data], ok)
        patch(id) == Call("PATCH", "/workflow-stages/{id}/", id,
                          [status |-> "fastmon_processing"], env.processing)
    IN IF ~(Truthy(workflow_id) /\ track)
       THEN [stage_id |-> None, calls |-> <<>>, warnings |-> 0]
       ELSE IF env.stage = "fail"
       THEN [stage_id |-> None, calls |-> <<post(FALSE)>>, warnings |-> 1]
       ELSE LET stage_id == IF env.stage = "ok" THEN StageId ELSE None
            IN [stage_id |-> stage_id,
                calls |-> <<post(TRUE), patch(stage_id)>>,
                warnings |-> IF env.processing THEN 0 ELSE 1]

\* a variant that writes fastmon_complete again after a failed write
TrackComplete_retries(stage_id, tf_files_created, tf_files_registered, env) ==
    LET patch == Call("PATCH", "/workflow-stages/{id}/", stage_id,
                      [status |-> "fastmon_complete",
                       output_message |->
                           [tf_files_created |-> tf_files_created,
                            tf_filenames |-> TfFilenames(tf_files_registered)]],
                      env.complete)
    IN IF ~Truthy(stage_id)
       THEN [calls |-> <<>>, warnings |-> 0]
       ELSE [calls |-> IF env.complete THEN <<patch>> ELSE <<patch, patch>>,
             warnings |-> IF env.complete THEN 0 ELSE 1]
\* main.py:240-253: the stage is moved to fastmon_complete
\* a variant that completes only a stage whose processing update succeeded
TrackComplete_after_processing(stage_id, tf_files_created, tf_files_registered, env) ==
    IF ~Truthy(stage_id) \/ ~env.processing
    THEN [calls |-> <<>>, warnings |-> 0]
    ELSE [calls |-> <<Call("PATCH", "/workflow-stages/{id}/", stage_id,
                           [status |-> "fastmon_complete",
                            output_message |->
                                [tf_files_created |-> tf_files_created,
                                 tf_filenames |-> TfFilenames(tf_files_registered)]],
                           env.complete)>>,
          warnings |-> IF env.complete THEN 0 ELSE 1]
TrackComplete(stage_id, tf_files_created, tf_files_registered, env) ==
    IF ~Truthy(stage_id)
    THEN [calls |-> <<>>, warnings |-> 0]
    ELSE [calls |-> <<Call("PATCH", "/workflow-stages/{id}/", stage_id,
                           [status |-> "fastmon_complete",
                            output_message |->
                                [tf_files_created |-> tf_files_created,
                                 tf_filenames |-> TfFilenames(tf_files_registered)]],
                           env.complete)>>,
          warnings |-> IF env.complete THEN 0 ELSE 1]

\* a variant that completes the stage only when a TF was registered
Finish_skips_empty(start, sim, loop, env) ==
    IF loop.raised
    THEN loop @@ [rng |-> sim.rng, stats_updated |-> FALSE]
    ELSE LET done == IF loop.tf_files_created = 0
                     THEN [calls |-> <<>>, warnings |-> 0]
                     ELSE TrackComplete(start.stage_id, loop.tf_files_created,
                                        loop.tf_files_registered, env)
         IN [loop EXCEPT !.api = @ \o done.calls, !.warnings = @ + done.warnings]
            @@ [rng |-> sim.rng, stats_updated |-> TRUE]
\* main.py:235-255, after the registration loop
\* a variant that counts every descriptor, registered or not
Finish_counts_descriptors(start, sim, loop, env) ==
    IF loop.raised
    THEN loop @@ [rng |-> sim.rng, stats_updated |-> FALSE]
    ELSE LET done == TrackComplete(start.stage_id, loop.tf_files_created,
                                   loop.tf_files_registered, env)
         IN [loop EXCEPT !.api = @ \o done.calls, !.warnings = @ + done.warnings,
                         !.tf_files_created = Len(loop.tf_files_registered)]
            @@ [rng |-> sim.rng, stats_updated |-> TRUE]
Finish(start, sim, loop, env) ==
    IF loop.raised
    THEN loop @@ [rng |-> sim.rng, stats_updated |-> FALSE]
    ELSE LET done == TrackComplete(start.stage_id, loop.tf_files_created,
                                   loop.tf_files_registered, env)
         IN [loop EXCEPT !.api = @ \o done.calls, !.warnings = @ + done.warnings]
            @@ [rng |-> sim.rng, stats_updated |-> TRUE]

\* a variant in which a stage that could not be created ends the processing
Register_needs_stage(start, sim, message_data, env) ==
    IF start.warnings > 0 /\ ~Truthy(start.stage_id)
    THEN [Outcome0 EXCEPT !.api = start.calls, !.warnings = start.warnings]
         @@ [rng |-> sim.rng, stats_updated |-> FALSE]
    ELSE Finish(start, sim,
                RegisterLoop(sim.tf_subsamples, 1, message_data, env.tf,
                    [Outcome0 EXCEPT !.api = start.calls,
                                     !.warnings = start.warnings,
                                     !.errors = sim.errors]),
                env)
\* main.py:220-233
Register(start, sim, message_data, env) ==
    Finish(start, sim,
           RegisterLoop(sim.tf_subsamples, 1, message_data, env.tf,
               [Outcome0 EXCEPT !.api = start.calls,
                                !.warnings = start.warnings,
                                !.errors = sim.errors]),
           env)

\* a variant that creates the workflow stage before it looks at the filename
sample_timeframes_stage_first(message_data, config_, track, env, r) ==
    IF ~IsMapping(message_data)
    THEN [Outcome0 EXCEPT !.raised = TRUE] @@ [rng |-> r, stats_updated |-> FALSE]
    ELSE IF ~Truthy(Get(message_data, "filename"))
    THEN [Outcome0 EXCEPT !.errors = 1,
                          !.api = TrackStart(message_data, track, env).calls]
         @@ [rng |-> r, stats_updated |-> FALSE]
    ELSE Register(TrackStart(message_data, track, env),
                  simulate_tf_subsamples(message_data, config_, AgentName, r),
                  message_data, env)

sample_timeframes(message_data, config_, track, env, r) ==
    IF ~IsMapping(message_data)
    THEN \* message_data.get raises AttributeError (main.py:189)
         [Outcome0 EXCEPT !.raised = TRUE] @@ [rng |-> r, stats_updated |-> FALSE]
    ELSE IF ~Truthy(Get(message_data, "filename"))
    THEN [Outcome0 EXCEPT !.errors = 1] @@ [rng |-> r, stats_updated |-> FALSE]
    ELSE Register(TrackStart(message_data, track, env),
                  simulate_tf_subsamples(message_data, config_, AgentName, r),
                  message_data, env)

(***************************************************************************)
(* on_message.  log_received_message hands over the decoded body and its   *)
(* msg_type; the heartbeat is sent before the try block.  The result holds *)
(* what the handler issued, reported and logged.                           *)
(***************************************************************************)
\* a variant without the try block around the dispatch
on_message_unguarded(msg_type, message_data, config_, track, env, r) ==
    LET st == sample_timeframes(message_data, config_, track, env, r)
    IN IF msg_type # "stf_ready"
       THEN [Outcome0 EXCEPT !.warnings = 1]
            @@ [rng |-> r, stats_updated |-> FALSE, status |-> <<>>, heartbeats |-> 1,
                invocations |-> 0, propagated |-> FALSE]
       ELSE IF st.raised
       THEN st @@ [status |-> <<>>, heartbeats |-> 1, invocations |-> 1,
                   propagated |-> TRUE]
       ELSE st @@ [status |-> <<>>, heartbeats |-> 1, invocations |-> 1,
                   propagated |-> FALSE]
\* a variant that samples every inbound message, whatever its type
\* a variant that does not count an event rejected for its missing filename
on_message_uncounted_reject(msg_type, message_data, config_, track, env, r) ==
    LET st == sample_timeframes(message_data, config_, track, env, r)
        counted == IF IsMapping(message_data) /\ ~Truthy(Get(message_data, "filename"))
                   THEN 0 ELSE 1
    IN IF msg_type # "stf_ready"
       THEN [Outcome0 EXCEPT !.warnings = 1]
            @@ [rng |-> r, stats_updated |-> FALSE, status |-> <<>>, heartbeats |-> 1,
                invocations |-> 0, propagated |-> FALSE]
       ELSE IF st.raised
       THEN [st EXCEPT !.errors = @ + 1]
            @@ [status |-> <<"ERROR">>, heartbeats |-> 1, invocations |-> 1,
                propagated |-> FALSE]
       ELSE st @@ [status |-> <<>>, heartbeats |-> 1, invocations |-> counted,
                   propagated |-> FALSE]
on_message_any_type(msg_type, message_data, config_, track, env, r) ==
    LET st == sample_timeframes(message_data, config_, track, env, r)
    IN IF st.raised
       THEN [st EXCEPT !.errors = @ + 1]
            @@ [status |-> <<"ERROR">>, heartbeats |-> 1, invocations |-> 1,
                propagated |-> FALSE]
       ELSE st @@ [status |-> <<>>, heartbeats |-> 1, invocations |-> 1,
                   propagated |-> FALSE]
on_message(msg_type, message_data, config_, track, env, r) ==
    LET st == sample_timeframes(message_data, config_, track, env, r)
    IN IF msg_type # "stf_ready"
       THEN [Outcome0 EXCEPT !.warnings = 1]
            @@ [rng |-> r, stats_updated |-> FALSE, status |-> <<>>, heartbeats |-> 1,
                invocations |-> 0, propagated |-> FALSE]
       ELSE IF st.raised
       THEN [st EXCEPT !.errors = @ + 1]
            @@ [status |-> <<"ERROR">>, heartbeats |-> 1, invocations |-> 1,
                propagated |-> FALSE]
       ELSE st @@ [status |-> <<>>, heartbeats |-> 1, invocations |-> 1,
                   propagated |-> FALSE]

(***************************************************************************)
(* Files of the watch directories.  A path stands for a Path object; its   *)
(* name is given character by character where the code searches it.        *)
(***************************************************************************)
PathA == "/data/run_42_data.stf"
PathB == "/data/r7_data.stf"
PathC == "/data/no_number.stf"
NameOf(file_path) ==
    CASE file_path = PathA -> "run_42_data.stf"
      [] file_path = PathB -> "r7_data.stf"
      [] OTHER -> "no_number.stf"
CharsOf(name) ==
    CASE name = "run_42_data.stf" ->
             <<"r", "u", "n", "_", "4", "2", "_", "d", "a", "t", "a", ".", "s", "t", "f">>
      [] name = "r7_data.stf" ->
             <<"r", "7", "_", "d", "a", "t", "a", ".", "s", "t", "f">>
      [] OTHER ->
             <<"n", "o", "_", "n", "u", "m", "b", "e", "r", ".", "s", "t", "f">>
SizeOf(file_path) == IF file_path = PathB THEN 2000 ELSE 1000

(***************************************************************************)
(* extract_run_number: re.search of run_(\d+), run(\d+), r(\d+) in turn,   *)
(* ignoring case; chars is the file name as a sequence of characters.      *)
(***************************************************************************)
DigitChars == <<"0", "1", "2", "3", "4", "5", "6", "7", "8", "9">>
IsDigit(c) == \E d \in 1..10 : DigitChars[d] = c
DigitValue(c) == (CHOOSE d \in 1..10 : DigitChars[d] = c) - 1
UpperOf(c) == CASE c = "r" -> "R" [] c = "u" -> "U" [] c = "n" -> "N" [] OTHER -> c
\* the literal part of a pattern matches at position i, and a digit follows
MatchesAt(chars, i, literal) ==
    /\ i + Len(literal) <= Len(chars)
    /\ \A k \in 1..Len(literal) :
          chars[i + k - 1] = literal[k] \/ chars[i + k - 1] = UpperOf(literal[k])
    /\ IsDigit(chars[i + Len(literal)])
RECURSIVE DigitsFrom(_, _, _)
DigitsFrom(chars, j, value) ==
    IF j <= Len(chars) /\ IsDigit(chars[j])
    THEN DigitsFrom(chars, j + 1, 10 * value + DigitValue(chars[j]))
    ELSE value
Search(chars, literal) ==
    LET hits == {i \in 1..Len(chars) : MatchesAt(chars, i, literal)}
    IN IF hits = {} THEN [matched |-> FALSE, group |-> 0]
       ELSE LET i == CHOOSE h \in hits : \A g \in hits : h <= g
            IN [matched |-> TRUE, group |-> DigitsFrom(chars, i + Len(literal), 0)]
RunPatterns == <<<<"r", "u", "n", "_">>, <<"r", "u", "n">>, <<"r">>>>
extract_run_number_by_position(chars, default_run_number) ==
    LET hits == {h \in (1..Len(chars)) \X (1..Len(RunPatterns)) :
                    MatchesAt(chars, h[1], RunPatterns[h[2]])}
    IN IF hits = {} THEN default_run_number
       ELSE LET h == CHOOSE x \in hits :
                        \A y \in hits : x[1] < y[1] \/ (x[1] = y[1] /\ x[2] <= y[2])
            IN DigitsFrom(chars, h[1] + Len(RunPatterns[h[2]]), 0)
extract_run_number(chars, default_run_number) ==
    IF Search(chars, RunPatterns[1]).matched THEN Search(chars, RunPatterns[1]).group
    ELSE IF Search(chars, RunPatterns[2]).matched THEN Search(chars, RunPatterns[2]).group
    ELSE IF Search(chars, RunPatterns[3]).matched THEN Search(chars, RunPatterns[3]).group
    ELSE default_run_number

(***************************************************************************)
(* get_or_create_run.  runs is the set of run numbers the catalog holds;   *)
(* env.lookup is the answer to the GET ("paginated": a dict with results,  *)
(* "list": a bare list, "fail": an exception), env.create says whether the *)
(* POST /runs/ returns.  An exception is logged and re-raised.             *)
(* get_or_create_run_given is the body of the function for given answers   *)
(* of the two calls: lookup_ok and runs_response for the GET (a response   *)
(* is paginated, a dict with 'results', or a bare list), create_ok for the *)
(* POST.                                                                   *)
(***************************************************************************)
RunRecord(run_number) == [run_id |-> "run-" \o ToString(run_number), run_number |-> run_number]
RunsResponse(run_number, runs, shape) ==
    LET found == IF run_number \in runs THEN <<RunRecord(run_number)>> ELSE <<>>
    IN IF shape = "paginated" THEN [paginated |-> TRUE, results |-> found]
       ELSE [paginated |-> FALSE, results |-> found]

get_or_create_run_given_last(run_number, lookup_ok, runs_response, create_ok, runs) ==
    LET lookup(ok) == Call("GET", "/runs/?run_number", None, [run_number |-> run_number], ok)
        create(ok) == Call("POST", "/runs/", None,
                           [run_number |-> run_number,
                            run_conditions |-> [auto_created |-> TRUE]], ok)
    IN IF ~lookup_ok
       THEN [raised |-> TRUE, run_data |-> EmptyDict, calls |-> <<lookup(FALSE)>>,
             errors |-> 1, runs |-> runs]
       ELSE IF Len(runs_response.results) > 0
       THEN [raised |-> FALSE, run_data |-> runs_response.results[Len(runs_response.results)],
             calls |-> <<lookup(TRUE)>>, errors |-> 0, runs |-> runs]
       ELSE IF ~create_ok
       THEN [raised |-> TRUE, run_data |-> EmptyDict,
             calls |-> <<lookup(TRUE), create(FALSE)>>, errors |-> 1, runs |-> runs]
       ELSE [raised |-> FALSE, run_data |-> RunRecord(run_number),
             calls |-> <<lookup(TRUE), create(TRUE)>>, errors |-> 0,
             runs |-> runs \cup {run_number}]
\* a variant that recognises a run in a bare list only
get_or_create_run_given_list_only(run_number, lookup_ok, runs_response, create_ok, runs) ==
    LET lookup(ok) == Call("GET", "/runs/?run_number", None, [run_number |-> run_number], ok)
        create(ok) == Call("POST", "/runs/", None,
                           [run_number |-> run_number,
                            run_conditions |-> [auto_created |-> TRUE]], ok)
    IN IF ~lookup_ok
       THEN [raised |-> TRUE, run_data |-> EmptyDict, calls |-> <<lookup(FALSE)>>,
             errors |-> 1, runs |-> runs]
       ELSE IF Len(runs_response.results) > 0 /\ ~runs_response.paginated
       THEN [raised |-> FALSE, run_data |-> runs_response.results[1],
             calls |-> <<lookup(TRUE)>>, errors |-> 0, runs |-> runs]
       ELSE IF ~create_ok
       THEN [raised |-> TRUE, run_data |-> EmptyDict,
             calls |-> <<lookup(TRUE), create(FALSE)>>, errors |-> 1, runs |-> runs]
       ELSE [raised |-> FALSE, run_data |-> RunRecord(run_number),
             calls |-> <<lookup(TRUE), create(TRUE)>>, errors |-> 0,
             runs |-> runs \cup {run_number}]
get_or_create_run_given_retry(run_number, lookup_ok, runs_response, create_ok, runs) ==
    LET lookup(ok) == Call("GET", "/runs/?run_number", None, [run_number |-> run_number], ok)
        create(ok) == Call("POST", "/runs/", None,
                           [run_number |-> run_number,
                            run_conditions |-> [auto_created |-> TRUE]], ok)
    IN IF ~lookup_ok
       THEN [raised |-> TRUE, run_data |-> EmptyDict, calls |-> <<lookup(FALSE)>>,
             errors |-> 1, runs |-> runs]
       ELSE IF Len(runs_response.results) > 0
       THEN [raised |-> FALSE, run_data |-> runs_response.results[1],
             calls |-> <<lookup(TRUE)>>, errors |-> 0, runs |-> runs]
       ELSE IF ~create_ok
       THEN [raised |-> TRUE, run_data |-> EmptyDict,
             calls |-> <<lookup(TRUE), create(FALSE), create(FALSE)>>, errors |-> 1,
             runs |-> runs]
       ELSE [raised |-> FALSE, run_data |-> RunRecord(run_number),
             calls |-> <<lookup(TRUE), create(TRUE)>>, errors |-> 0,
             runs |-> runs \cup {run_number}]
get_or_create_run_given(run_number, lookup_ok, runs_response, create_ok, runs) ==
    LET lookup(ok) == Call("GET", "/runs/?run_number", None, [run_number |-> run_number], ok)
        create(ok) == Call("POST", "/runs/", None,
                           [run_number |-> run_number,
                            run_conditions |-> [auto_created |-> TRUE]], ok)
    IN IF ~lookup_ok
       THEN [raised |-> TRUE, run_data |-> EmptyDict, calls |-> <<lookup(FALSE)>>,
             errors |-> 1, runs |-> runs]
       ELSE IF Len(runs_response.results) > 0
       THEN [raised |-> FALSE, run_data |-> runs_response.results[1],
             calls |-> <<lookup(TRUE)>>, errors |-> 0, runs |-> runs]
       ELSE IF ~create_ok
       THEN [raised |-> TRUE, run_data |-> EmptyDict,
             calls |-> <<lookup(TRUE), create(FALSE)>>, errors |-> 1, runs |-> runs]
       ELSE [raised |-> FALSE, run_data |-> RunRecord(run_number),
             calls |-> <<lookup(TRUE), create(TRUE)>>, errors |-> 0,
             runs |-> runs \cup {run_number}]
get_or_create_run(run_number, runs, env) ==
    get_or_create_run_given(run_number, env.lookup # "fail",
                            RunsResponse(run_number, runs, env.lookup), env.create, runs)

(***************************************************************************)
(* calculate_checksum and construct_file_url.  The digest of a file is     *)
(* <<"md5", path>>; a read error is logged and yields the empty string.    *)
(***************************************************************************)
calculate_checksum(file_path, readable) ==
    IF readable THEN [checksum |-> <<"md5", file_path>>, errors |-> 0]
    ELSE [checksum |-> "", errors |-> 1]
construct_file_url(file_path, base_url) == <<base_url, "/", file_path>>

(***************************************************************************)
(* record_stf_file.  cat is the catalog (its runs and the number of STF    *)
(* records it holds), env the fate of each step: env.stat (file_path.stat  *)
(* returns), env.lookup and env.create (run resolution), env.read (the     *)
(* file can be read for the checksum), env.post (POST /stf-files/          *)
(* returns).  Any exception is logged and re-raised.                       *)
(***************************************************************************)
StfFileData(file_path, config_, run_data, checksum) ==
    [run |-> run_data["run_id"],
     stf_filename |-> NameOf(file_path),
     file_size_bytes |-> SizeOf(file_path),
     checksum |-> checksum,
     status |-> REGISTERED,
     metadata |-> [original_path |-> file_path,
                   file_url |-> construct_file_url(file_path,
                                    GetOr(config_, "base_url", "file://")),
                   creation_time |-> "ctime",
                   modification_time |-> "mtime",
                   agent_version |-> "1.0.0"]]
\* the record the catalog returns for a created StfFile
StfFileCreated(stf_file_data, cat) ==
    [file_id |-> "stf-uuid-" \o ToString(cat.stf_files + 1)] @@ stf_file_data

\* a variant in which a checksum error aborts the registration
RecordWithRun_checksum_fatal(file_path, config_, cat, env, run) ==
    LET sum == IF GetOr(config_, "calculate_checksum", FALSE)
               THEN calculate_checksum(file_path, env.read)
               ELSE [checksum |-> "", errors |-> 0]
        stf_file_data == StfFileData(file_path, config_, run.run_data, sum.checksum)
    IN IF run.raised \/ sum.errors > 0
       THEN [raised |-> TRUE, stf_file |-> EmptyDict, calls |-> run.calls,
             errors |-> run.errors + 1, cat |-> cat]
       ELSE IF ~env.post
       THEN [raised |-> TRUE, stf_file |-> EmptyDict,
             calls |-> run.calls \o <<Call("POST", "/stf-files/", None, stf_file_data, FALSE)>>,
             errors |-> sum.errors + 1, cat |-> [cat EXCEPT !.runs = run.runs]]
       ELSE [raised |-> FALSE, stf_file |-> StfFileCreated(stf_file_data, cat),
             calls |-> run.calls \o <<Call("POST", "/stf-files/", None, stf_file_data, TRUE)>>,
             errors |-> sum.errors,
             cat |-> [runs |-> run.runs, stf_files |-> cat.stf_files + 1]]
RecordWithRun(file_path, config_, cat, env, run) ==
    LET sum == IF GetOr(config_, "calculate_checksum", FALSE)
               THEN calculate_checksum(file_path, env.read)
               ELSE [checksum |-> "", errors |-> 0]
        stf_file_data == StfFileData(file_path, config_, run.run_data, sum.checksum)
    IN IF run.raised
       THEN [raised |-> TRUE, stf_file |-> EmptyDict, calls |-> run.calls,
             errors |-> run.errors + 1, cat |-> cat]
       ELSE IF ~env.post
       THEN [raised |-> TRUE, stf_file |-> EmptyDict,
             calls |-> run.calls \o <<Call("POST", "/stf-files/", None, stf_file_data, FALSE)>>,
             errors |-> sum.errors + 1, cat |-> [cat EXCEPT !.runs = run.runs]]
       ELSE [raised |-> FALSE, stf_file |-> StfFileCreated(stf_file_data, cat),
             calls |-> run.calls \o <<Call("POST", "/stf-files/", None, stf_file_data, TRUE)>>,
             errors |-> sum.errors,
             cat |-> [runs |-> run.runs, stf_files |-> cat.stf_files + 1]]

\* a variant that resolves the run before it stats the file
record_stf_file_run_first(file_path, config_, cat, env) ==
    LET run == get_or_create_run(
                   extract_run_number(CharsOf(NameOf(file_path)),
                                      config_["default_run_number"]),
                   cat.runs, env)
    IN IF ~env.stat
       THEN [raised |-> TRUE, stf_file |-> EmptyDict, calls |-> run.calls, errors |-> 1,
             cat |-> [cat EXCEPT !.runs = run.runs]]
       ELSE RecordWithRun(file_path, config_, cat, env, run)
record_stf_file(file_path, config_, cat, env) ==
    IF ~env.stat
    THEN [raised |-> TRUE, stf_file |-> EmptyDict, calls |-> <<>>, errors |-> 1, cat |-> cat]
    ELSE RecordWithRun(file_path, config_, cat, env,
             get_or_create_run(
                 extract_run_number(CharsOf(NameOf(file_path)), config_["default_run_number"]),
                 cat.runs, env))

(***************************************************************************)
(* sample_files.  pick is the draw of random.sample: distinct positions of *)
(* the list, in the order drawn.                                           *)
(***************************************************************************)
Max(a, b) == IF a >= b THEN a ELSE b
Min(a, b) == IF a <= b THEN a ELSE b
SelectionCount_no_minimum(n, selection_fraction) ==
    Min(TruncDiv(n * selection_fraction, 100), n)
SelectionCount(n, selection_fraction) ==
    Min(Max(1, TruncDiv(n * selection_fraction, 100)), n)
Picks(n, k) == {p \in [1..k -> 1..n] : \A i, j \in 1..k : p[i] = p[j] => i = j}
sample_files(files, selection_fraction, pick) ==
    IF files = <<>> THEN <<>>
    ELSE [k \in 1..SelectionCount(Len(files), selection_fraction) |-> files[pick[k]]]

(***************************************************************************)
(* _emulate_stf_registration_and_sampling, as far as the loop over the     *)
(* selected files (main.py:73-93), and one iteration of that loop          *)
(* (main.py:96-121).                                                       *)
(***************************************************************************)
TestLimit == 2
\* a variant without the cut to the test limit
SelectFiles_uncapped(recent_files, config_, pick) ==
    IF config_["selection_fraction"] < 100
    THEN sample_files(recent_files, config_["selection_fraction"], pick)
    ELSE recent_files
\* a variant that drops a file already in the batch
SelectFiles_distinct(recent_files, config_, pick) ==
    LET batch == SelectFiles_uncapped(recent_files, config_, pick)
        cut == IF Len(batch) > 2 THEN SubSeq(batch, 1, 2) ELSE batch
    IN IF Len(cut) = 2 /\ cut[1] = cut[2] THEN <<cut[1]>> ELSE cut
SelectFiles(recent_files, config_, pick) ==
    LET sampled == IF config_["selection_fraction"] < 100
                   THEN sample_files(recent_files, config_["selection_fraction"], pick)
                   ELSE recent_files
    IN IF Len(sampled) > TestLimit THEN SubSeq(sampled, 1, TestLimit) ELSE sampled

\* a variant that reads the identifier of the record from another key
MockStfReady_other_id_key(stf_file) ==
    [msg_type |-> "stf_ready",
     filename |-> Get(stf_file, "stf_filename"),
     file_id |-> Get(stf_file, "id"),
     run_id |-> Get(stf_file, "run"),
     file_url |-> GetOr(GetOr(stf_file, "metadata", EmptyDict), "file_url", ""),
     checksum |-> GetOr(stf_file, "checksum", ""),
     size_bytes |-> Get(stf_file, "file_size_bytes"),
     start |-> GetOr(GetOr(stf_file, "metadata", EmptyDict), "creation_time", ""),
     end |-> GetOr(GetOr(stf_file, "metadata", EmptyDict), "modification_time", ""),
     state |-> "physics",
     substate |-> "running",
     processed_by |-> AgentName]
\* the mock stf_ready message built from the STF record
MockStfReady(stf_file) ==
    [msg_type |-> "stf_ready",
     filename |-> Get(stf_file, "stf_filename"),
     file_id |-> Get(stf_file, "file_id"),
     run_id |-> Get(stf_file, "run"),
     file_url |-> GetOr(GetOr(stf_file, "metadata", EmptyDict), "file_url", ""),
     checksum |-> GetOr(stf_file, "checksum", ""),
     size_bytes |-> Get(stf_file, "file_size_bytes"),
     start |-> GetOr(GetOr(stf_file, "metadata", EmptyDict), "creation_time", ""),
     end |-> GetOr(GetOr(stf_file, "metadata", EmptyDict), "modification_time", ""),
     state |-> "physics",
     substate |-> "running",
     processed_by |-> AgentName]

\* a variant whose continuous path publishes nothing
RegisterAndSample_unnotified(rec, config_, track, env, r) ==
    IF rec.raised
    THEN [Outcome0 EXCEPT !.raised = TRUE, !.api = rec.calls, !.errors = rec.errors]
         @@ [rng |-> r, stats_updated |-> FALSE, registered |-> FALSE,
             message_data |-> EmptyDict, cat |-> rec.cat]
    ELSE LET st == sample_timeframes(MockStfReady(rec.stf_file), config_, track, env, r)
         IN [st EXCEPT !.api = rec.calls \o @, !.errors = rec.errors + @, !.sent = <<>>]
            @@ [registered |-> TRUE, message_data |-> MockStfReady(rec.stf_file),
                cat |-> rec.cat]
\* a variant that withdraws the STF records when a registration fails
RegisterAndSample_rollback(rec, config_, track, env, r) ==
    IF rec.raised
    THEN [Outcome0 EXCEPT !.raised = TRUE, !.api = rec.calls, !.errors = rec.errors]
         @@ [rng |-> r, stats_updated |-> FALSE, registered |-> FALSE,
             message_data |-> EmptyDict, cat |-> [rec.cat EXCEPT !.stf_files = 0]]
    ELSE LET st == sample_timeframes(MockStfReady(rec.stf_file), config_, track, env, r)
         IN [st EXCEPT !.api = rec.calls \o @, !.errors = rec.errors + @]
            @@ [registered |-> TRUE, message_data |-> MockStfReady(rec.stf_file),
                cat |-> rec.cat]
\* one file of the cycle: registered, then sampled like an inbound event
RegisterAndSample(rec, config_, track, env, r) ==
    IF rec.raised
    THEN [Outcome0 EXCEPT !.raised = TRUE, !.api = rec.calls, !.errors = rec.errors]
         @@ [rng |-> r, stats_updated |-> FALSE, registered |-> FALSE,
             message_data |-> EmptyDict, cat |-> rec.cat]
    ELSE LET st == sample_timeframes(MockStfReady(rec.stf_file), config_, track, env, r)
         IN [st EXCEPT !.api = rec.calls \o @, !.errors = rec.errors + @]
            @@ [registered |-> TRUE, message_data |-> MockStfReady(rec.stf_file),
                cat |-> rec.cat]

(***************************************************************************)
(* Inputs of the model: configurations, inbound messages, environments.    *)
(***************************************************************************)
WithKey(d, k, v) == [x \in DOMAIN d \cup {k} |-> IF x = k THEN v ELSE d[x]]
Without(d, k) == [x \in DOMAIN d \ {k} |-> d[x]]

BaseConfig ==
    [selection_fraction |-> 10, default_run_number |-> 1, lookback_time |-> 0,
     calculate_checksum |-> TRUE, check_interval |-> 30, base_url |-> "file://"]
Configs ==
    {BaseConfig} \cup {WithKey(BaseConfig, "tf_files_per_stf", n) : n \in 0..MaxTfPerStf}
ContinuousConfigs ==
    {WithKey(c, "selection_fraction", f) :
        c \in {BaseConfig, WithKey(BaseConfig, "tf_files_per_stf", 1)}, f \in {10, 100}}

StfReady(run_id) ==
    [msg_type |-> "stf_ready", filename |-> "run_42_data.stf", file_id |-> "stf-uuid-1",
     run_id |-> run_id, size_bytes |-> 1000, state |-> "physics", substate |-> "running"]
Messages ==
    {StfReady("run-a"),
     WithKey(StfReady("run-b"), "workflow_id", "wf-1"),
     WithKey(StfReady("run-a"), "workflow_id", ""),
     WithKey(WithKey(StfReady("run-a"), "size_bytes", NonNumeric), "workflow_id", "wf-1"),
     Without(StfReady("run-a"), "filename"),
     WithKey(WithKey(StfReady("run-a"), "filename", ""), "workflow_id", "wf-1"),
     NotAMapping}

TfFates == {"ok", "postfail", "sendfail"}
\* the calls an event can lead to, so that env is drawn over those alone
ReachesPipeline(msg_type, message_data) ==
    /\ msg_type = "stf_ready"
    /\ IsMapping(message_data)
    /\ Truthy(Get(message_data, "filename"))
Tracked(msg_type, message_data, track) ==
    /\ ReachesPipeline(msg_type, message_data)
    /\ Truthy(Get(message_data, "workflow_id"))
    /\ track
\* the answers of the catalog to the tracking calls that are issued
StageEnvs(tracked) ==
    IF ~tracked
    THEN {[stage |-> "ok", processing |-> TRUE, complete |-> TRUE]}
    ELSE {[stage |-> "fail", processing |-> TRUE, complete |-> TRUE]}
         \cup {[stage |-> "noid", processing |-> p, complete |-> TRUE] : p \in BOOLEAN}
         \cup {[stage |-> "ok", processing |-> p, complete |-> c] : p, c \in BOOLEAN}
Envs(msg_type, message_data, config_, track, r) ==
    LET n == IF ReachesPipeline(msg_type, message_data)
             THEN Len(simulate_tf_subsamples(message_data, config_, AgentName, r).tf_subsamples)
             ELSE 0
    IN {[stage |-> e.stage, processing |-> e.processing, complete |-> e.complete, tf |-> t] :
            e \in StageEnvs(Tracked(msg_type, message_data, track)),
            t \in [1..n -> TfFates]}

\* what find_recent_files returns in a scan cycle
FoundLists ==
    {<<>>, <<PathA>>, <<PathA, PathB>>, <<PathC, PathC>>, <<PathB, PathC, PathA>>}
\* the fates of one file of a scan cycle, over the steps that are reached: the
\* samples of one file share their fate, and a read error and the paginated
\* answer are drawn with a fault-free sampling
StfOk == [stat |-> TRUE, lookup |-> "list", create |-> TRUE, read |-> TRUE, post |-> TRUE]
StfFailures(file_path, config_, cat) ==
    {[StfOk EXCEPT !.stat = FALSE], [StfOk EXCEPT !.lookup = "fail"],
     [StfOk EXCEPT !.post = FALSE]}
    \cup (IF extract_run_number(CharsOf(NameOf(file_path)), config_["default_run_number"])
                \in cat.runs
          THEN {} ELSE {[StfOk EXCEPT !.create = FALSE]})
StfVariants(config_) ==
    {[StfOk EXCEPT !.lookup = "paginated"]}
    \cup (IF GetOr(config_, "calculate_checksum", FALSE)
          THEN {[StfOk EXCEPT !.read = FALSE]} ELSE {})
CycleEnv(e, t) ==
    [stf |-> e, stage |-> "ok", processing |-> TRUE, complete |-> TRUE, tf |-> t]
CycleEnvs(file_path, config_, cat) ==
    LET n == GetOr(config_, "tf_files_per_stf", DefaultTfFilesPerStf)
    IN {CycleEnv(StfOk, [k \in 1..n |-> f]) : f \in TfFates}
       \cup {CycleEnv(e, [k \in 1..n |-> "ok"]) : e \in StfVariants(config_)}
       \cup {CycleEnv(e, <<>>) : e \in StfFailures(file_path, config_, cat)}

(***************************************************************************)
(* The display client after __init__ (swf_fastmon_client/main.py:40-44).   *)
(* run_statistics is a dict keyed by run number.                           *)
(***************************************************************************)
NewClient ==
    [tf_files_received |-> 0, total_file_size |-> 0, run_statistics |-> EmptyDict,
     running |-> TRUE]

(***************************************************************************)
(* The agent after __init__ (main.py:28-64), in the mode main() selects.   *)
(***************************************************************************)
Idle == [handler |-> "none"]
NoCycle == [selected |-> <<>>, done |-> 0, failed |-> FALSE, returned |-> "None",
            tf_files_registered |-> <<>>]

Init ==
    /\ mode \in {"message", "continuous"}
    /\ config \in (IF mode = "message" THEN Configs ELSE ContinuousConfigs)
    /\ track_workflow \in BOOLEAN
    /\ running = TRUE
    /\ stf_messages_processed = 0
    /\ files_processed = 0
    /\ processing_stats =
           [total_stf_messages |-> 0, total_tf_files_created |-> 0, total_files |-> 0]
    /\ rng = 1
    /\ pc = IF mode = "message" THEN "idle" ELSE "scan"
    /\ cycle = NoCycle
    /\ api = <<>>
    /\ sent = <<>>
    /\ status = <<>>
    /\ logs = [errors |-> 0, warnings |-> 0]
    /\ last = Idle
    /\ catalog = [runs |-> {}, stf_files |-> 0]
    /\ scans = 0
    /\ unit = Idle
    /\ client = NewClient

(***************************************************************************)
(* Message-driven mode: one inbound frame is handled.                      *)
(***************************************************************************)
OnMessage(msg_type, message_data, env) ==
    /\ mode = "message"
    /\ pc = "idle"
    /\ pc' = "handled"
    /\ stf_messages_processed < MaxEvents
    /\ \E out \in {on_message(msg_type, message_data, config, track_workflow, env, rng)} :
       /\ stf_messages_processed' = stf_messages_processed + out.invocations
       /\ processing_stats' =
              [processing_stats EXCEPT
                 !.total_stf_messages = @ + out.invocations,
                 !.total_tf_files_created =
                     IF out.stats_updated THEN @ + out.tf_files_created ELSE @]
       /\ rng' = out.rng
       /\ api' = out.api
       /\ sent' = out.sent
       /\ status' = out.status
       /\ logs' = [errors |-> out.errors, warnings |-> out.warnings]
       /\ last' = [handler |-> "on_message", msg_type |-> msg_type,
                   message_data |-> message_data, env |-> env, rng |-> rng,
                   raised |-> out.raised, propagated |-> out.propagated,
                   stats_updated |-> out.stats_updated,
                   invocations |-> out.invocations, heartbeats |-> out.heartbeats,
                   tf_files_created |-> out.tf_files_created,
                   tf_files_registered |-> out.tf_files_registered]
       /\ UNCHANGED <<mode, config, track_workflow, running, files_processed,
                      cycle, catalog, scans, unit, client>>

\* on_message returned (main.py:173): the agent waits for the next frame
Return ==
    /\ mode = "message"
    /\ pc = "handled"
    /\ pc' = "idle"
    /\ api' = <<>>
    /\ sent' = <<>>
    /\ status' = <<>>
    /\ logs' = [errors |-> 0, warnings |-> 0]
    /\ last' = Idle
    /\ UNCHANGED <<mode, config, track_workflow, running, stf_messages_processed,
                   files_processed, processing_stats, rng, cycle, catalog, scans, unit, client>>

Frames ==
    {<<"stf_ready", message_data>> : message_data \in Messages}
    \cup {<<"heartbeat", [msg_type |-> "heartbeat"]>>,
          <<"run_imminent", WithKey(StfReady("run-a"), "msg_type", "run_imminent")>>}

(***************************************************************************)
(* Continuous mode (start_continuous_monitoring, main.py:278-290): the     *)
(* loop runs a scan cycle, sends a heartbeat and sleeps.  pc is the        *)
(* position of the loop: "scan" before a cycle, "file" inside the loop     *)
(* over the selected files, "heartbeat" after the cycle returned, "sleep", *)
(* "stopped" after the loop was left.  In this mode api, sent and logs     *)
(* hold what the last step led to and status the reports of the last       *)
(* cycle.                                                                  *)
(***************************************************************************)
ScanCycle(recent_files, pick) ==
    /\ mode = "continuous"
    /\ pc = "scan"
    /\ scans < MaxScans
    /\ stf_messages_processed
          + (IF recent_files = <<>> THEN 0
             ELSE Len(SelectFiles(recent_files, config, pick))) <= MaxEvents
    /\ scans' = scans + 1
    /\ api' = <<>>
    /\ sent' = <<>>
    /\ status' = <<>>
    /\ last' = [handler |-> "scan", recent_files |-> recent_files, after |-> status]
    /\ IF recent_files = <<>>
       THEN /\ pc' = "heartbeat"
            /\ cycle' = NoCycle
            /\ logs' = [errors |-> 0, warnings |-> 1]
            /\ UNCHANGED processing_stats
       ELSE /\ pc' = "file"
            /\ cycle' = [NoCycle EXCEPT !.selected = SelectFiles(recent_files, config, pick),
                                        !.returned = "pending"]
            /\ logs' = [errors |-> 0,
                        warnings |-> IF Len(recent_files) > TestLimit
                                        /\ config["selection_fraction"] >= 100
                                     THEN 1 ELSE 0]
            /\ processing_stats' =
                   [processing_stats EXCEPT !.total_files = @ + Len(recent_files)]
    /\ UNCHANGED <<mode, config, track_workflow, running, stf_messages_processed,
                   files_processed, rng, catalog, unit, client>>

ProcessFile(env) ==
    /\ mode = "continuous"
    /\ pc = "file"
    /\ \E out \in {RegisterAndSample(
                      record_stf_file(cycle.selected[cycle.done + 1], config, catalog, env.stf),
                      config, track_workflow, env, rng)} :
       LET n == IF out.registered THEN 1 ELSE 0
           finished == cycle.done + 1 = Len(cycle.selected)
       IN /\ catalog' = out.cat
          /\ files_processed' = files_processed + n
          /\ stf_messages_processed' = stf_messages_processed + n
          /\ processing_stats' =
                 [processing_stats EXCEPT
                    !.total_stf_messages = @ + n,
                    !.total_tf_files_created =
                        IF out.stats_updated THEN @ + out.tf_files_created ELSE @]
          /\ rng' = out.rng
          /\ api' = out.api
          /\ sent' = out.sent
          /\ logs' = [errors |-> out.errors + (IF out.raised THEN 1 ELSE 0),
                      warnings |-> out.warnings]
          /\ last' = [handler |-> "file", file_path |-> cycle.selected[cycle.done + 1],
                      registered |-> out.registered, raised |-> out.raised,
                      message_data |-> out.message_data, rng |-> rng,
                      stats_updated |-> out.stats_updated,
                      tf_files_created |-> out.tf_files_created,
                      tf_files_registered |-> out.tf_files_registered,
                      tf |-> env.tf]
          /\ IF out.raised
             THEN /\ status' = Append(status, "ERROR")
                  /\ cycle' = [cycle EXCEPT !.failed = TRUE, !.returned = "None"]
                  /\ pc' = "heartbeat"
             ELSE /\ cycle' = [cycle EXCEPT
                                 !.done = @ + 1,
                                 !.tf_files_registered = @ \o out.tf_files_registered,
                                 !.returned = IF finished THEN "list" ELSE "pending"]
                  /\ status' = IF finished THEN Append(status, "OK") ELSE status
                  /\ pc' = IF finished THEN "heartbeat" ELSE "file"
    /\ UNCHANGED <<mode, config, track_workflow, running, scans, unit, client>>

\* send_heartbeat after the cycle returned (main.py:281); the value the cycle
\* returned is dropped (main.py:280 binds it to a name that is never read)
Heartbeat ==
    /\ mode = "continuous"
    /\ pc = "heartbeat"
    /\ pc' = "sleep"
    /\ cycle' = NoCycle
    /\ api' = <<>>
    /\ sent' = <<>>
    /\ logs' = [errors |-> 0, warnings |-> 0]
    /\ last' = [handler |-> "heartbeat", returned |-> cycle.returned]
    /\ UNCHANGED <<mode, config, track_workflow, running, stf_messages_processed,
                   files_processed, processing_stats, rng, status, catalog, scans,
                   unit, client>>

Sleep ==
    /\ mode = "continuous"
    /\ pc = "sleep"
    /\ pc' = "scan"
    /\ UNCHANGED <<mode, config, track_workflow, running, stf_messages_processed,
                   files_processed, processing_stats, rng, cycle, api, sent, status,
                   logs, last, catalog, scans, unit, client>>

\* KeyboardInterrupt, received while the loop sleeps, leaves the loop
\* (main.py:284-285)
Interrupt ==
    /\ mode = "continuous"
    /\ pc = "sleep"
    /\ pc' = "stopped"
    /\ UNCHANGED <<mode, config, track_workflow, running, stf_messages_processed,
                   files_processed, processing_stats, rng, cycle, api, sent, status,
                   logs, last, catalog, scans, unit, client>>

\* the running flag of the agent (main.py:43) is cleared from outside the
\* loop (a signal handler or the owner of the agent asks it to stop) while the
\* loop sleeps between two iterations
StopRequested ==
    /\ mode = "continuous"
    /\ pc = "sleep"
    /\ running
    /\ running' = FALSE
    /\ UNCHANGED <<mode, config, track_workflow, stf_messages_processed,
                   files_processed, processing_stats, rng, pc, cycle, api, sent,
                   status, logs, last, catalog, scans, unit, client>>

Next ==
    \/ \E frame \in Frames :
          \E env \in Envs(frame[1], frame[2], config, track_workflow, rng) :
             OnMessage(frame[1], frame[2], env)
    \/ Return
    \/ \E recent_files \in FoundLists :
          \E pick \in Picks(Len(recent_files),
                            SelectionCount(Len(recent_files), config["selection_fraction"])) :
             ScanCycle(recent_files, pick)
    \/ /\ pc = "file"
       /\ \E env \in CycleEnvs(cycle.selected[cycle.done + 1], config, catalog) :
             ProcessFile(env)
    \/ Heartbeat
    \/ Sleep
    \/ Interrupt
    \/ StopRequested

Spec == Init /\ [][Next]_vars

(***************************************************************************)
(* The functions of fastmon_utils taken alone: each step applies one of    *)
(* them to an input drawn from a bounded set and keeps the input and the   *)
(* result in unit.                                                         *)
(***************************************************************************)
Restrict(d, keys) == [k \in DOMAIN d \cap keys |-> d[k]]
DescriptorKeys ==
    {"tf_filename", "file_size_bytes", "sequence_number", "stf_file_id", "stf_parent",
     "metadata"}
\* descriptors as simulate_tf_subsamples builds them, and with fields missing
TfDescriptors ==
    {Restrict(TfMetadata(m, BaseConfig, AgentName, 0, 1), keys) :
        m \in {StfReady("run-a"), Without(StfReady("run-b"), "file_id")},
        keys \in SUBSET DescriptorKeys}
SequenceStarts == {0, 5}
SimStfFiles ==
    {StfReady("run-a"),
     WithKey(StfReady("run-a"), "size_bytes", NonNumeric),
     WithKey(StfReady("run-a"), "size_bytes", 0),
     Without(StfReady("run-b"), "file_id"),
     Without(StfReady("run-b"), "size_bytes")}
SimConfigs ==
    Configs \cup {WithKey(d, "tf_sequence_start", q) : d \in Configs, q \in SequenceStarts}

InitUnit ==
    /\ mode = "unit"
    /\ config = BaseConfig
    /\ track_workflow = FALSE
    /\ running = TRUE
    /\ stf_messages_processed = 0
    /\ files_processed = 0
    /\ processing_stats =
           [total_stf_messages |-> 0, total_tf_files_created |-> 0, total_files |-> 0]
    /\ rng = 1
    /\ pc = "unit"
    /\ cycle = NoCycle
    /\ api = <<>>
    /\ sent = <<>>
    /\ status = <<>>
    /\ logs = [errors |-> 0, warnings |-> 0]
    /\ last = Idle
    /\ catalog = [runs |-> {}, stf_files |-> 0]
    /\ scans = 0
    /\ unit = Idle
    /\ client = NewClient

RecordTf(tf_metadata, outcome) ==
    /\ mode = "unit"
    /\ pc = "unit"
    /\ pc' = "returned"
    /\ unit' = [handler |-> "record_tf_file", tf_metadata |-> tf_metadata,
                outcome |-> outcome, out |-> record_tf_file(tf_metadata, outcome)]
    /\ UNCHANGED <<mode, config, track_workflow, running, stf_messages_processed,
                   files_processed, processing_stats, rng, cycle, api, sent,
                   status, logs, last, catalog, scans, client>>

SimulateTf(stf_file, config_, r) ==
    /\ mode = "unit"
    /\ pc = "unit"
    /\ pc' = "returned"
    /\ unit' = [handler |-> "simulate_tf_subsamples", stf_file |-> stf_file,
                config |-> config_, rng |-> r,
                out |-> simulate_tf_subsamples(stf_file, config_, AgentName, r)]
    /\ UNCHANGED <<mode, config, track_workflow, running, stf_messages_processed,
                   files_processed, processing_stats, rng, cycle, api, sent,
                   status, logs, last, catalog, scans, client>>

\* sample_files applied to a list of paths, a fraction (in percent) and one
\* outcome of random.sample
MaxSampleFiles == 4
RECURSIVE ListsOver(_, _)
ListsOver(S, n) ==
    IF n = 0 THEN {<<>>}
    ELSE ListsOver(S, n - 1) \cup
         {Append(l, x) : l \in {m \in ListsOver(S, n - 1) : Len(m) = n - 1}, x \in S}
SampleLists == ListsOver({PathA, PathB}, MaxSampleFiles)
SampleFractions == {0, 10, 50, 67, 100}
SampleFiles(files, selection_fraction, pick) ==
    /\ mode = "unit"
    /\ pc = "unit"
    /\ pc' = "returned"
    /\ unit' = [handler |-> "sample_files", files |-> files,
                selection_fraction |-> selection_fraction, pick |-> pick,
                out |-> sample_files(files, selection_fraction, pick)]
    /\ UNCHANGED <<mode, config, track_workflow, running, stf_messages_processed,
                   files_processed, processing_stats, rng, cycle, api, sent,
                   status, logs, last, catalog, scans, client>>

(***************************************************************************)
(* validate_config (fastmon_utils.py:25-36): the first required key that   *)
(* is missing raises a ValueError naming it; a selection_fraction outside  *)
(* [0.0, 1.0] (here 0..100 percent) raises a ValueError; the mapping is    *)
(* only read.  The result carries the mapping as it is after the call.     *)
(***************************************************************************)
required_keys == <<"selection_fraction">>
validate_config_open_interval(config_) ==
    LET missing == {i \in 1..Len(required_keys) : required_keys[i] \notin DOMAIN config_}
    IN IF missing # {}
       THEN [raised |-> TRUE,
             error |-> "Missing required configuration key: " \o
                       required_keys[CHOOSE i \in missing : \A j \in missing : i <= j],
             config |-> config_]
       ELSE IF ~(0 < config_["selection_fraction"] /\ config_["selection_fraction"] < 100)
       THEN [raised |-> TRUE, error |-> "selection_fraction must be between 0.0 and 1.0",
             config |-> config_]
       ELSE [raised |-> FALSE, error |-> None, config |-> config_]
validate_config(config_) ==
    LET missing == {i \in 1..Len(required_keys) : required_keys[i] \notin DOMAIN config_}
    IN IF missing # {}
       THEN [raised |-> TRUE,
             error |-> "Missing required configuration key: " \o
                       required_keys[CHOOSE i \in missing : \A j \in missing : i <= j],
             config |-> config_]
       ELSE IF ~(0 <= config_["selection_fraction"] /\ config_["selection_fraction"] <= 100)
       THEN [raised |-> TRUE, error |-> "selection_fraction must be between 0.0 and 1.0",
             config |-> config_]
       ELSE [raised |-> FALSE, error |-> None, config |-> config_]
\* configurations handed to the constructor of the agent: the fraction below,
\* at, inside and above the bounds of the interval, the key missing, no key at all
FractionValues == {0 - 10, 0, 10, 100, 110}
ValidationConfigs ==
    {WithKey(c, "selection_fraction", f) :
        c \in {BaseConfig, [check_interval |-> 30]}, f \in FractionValues}
    \cup {Without(BaseConfig, "selection_fraction"), EmptyDict}
ValidateConfig(config_) ==
    /\ mode = "unit"
    /\ pc = "unit"
    /\ pc' = "returned"
    /\ unit' = [handler |-> "validate_config", config |-> config_,
                out |-> validate_config(config_)]
    /\ UNCHANGED <<mode, config, track_workflow, running, stf_messages_processed,
                   files_processed, processing_stats, rng, cycle, api, sent,
                   status, logs, last, catalog, scans, client>>

\* extract_run_number applied to a path, given character by character, and a
\* default; the name searched is the last component of the path
BaseName(path_chars) ==
    LET slashes == {i \in 1..Len(path_chars) : path_chars[i] = "/"}
        start == IF slashes = {} THEN 1
                 ELSE (CHOOSE i \in slashes : \A j \in slashes : j <= i) + 1
    IN SubSeq(path_chars, start, Len(path_chars))
RunPaths ==
    {<<"r", "u", "n", "_", "1", "2", "3", "4", "5", "_", "s", "t", "f", "_", "0", "0", "1", ".", "s", "t", "f">>,
     <<"r", "u", "n", "9", "9", "9", "9", ".", "s", "t", "f">>,
     <<"r", "7", "7", "_", "d", "a", "t", "a", ".", "s", "t", "f">>,
     <<"n", "o", "_", "r", "u", "n", "_", "h", "e", "r", "e", ".", "s", "t", "f">>,
     <<"r", "7", "_", "r", "u", "n", "_", "4", "2", ".", "s", "t", "f">>,
     <<"r", "9", "r", "u", "n", "8", ".", "s", "t", "f">>,
     <<"R", "U", "N", "_", "5", ".", "S", "T", "F">>,
     <<"R", "u", "n", "6", "_", "r", "3", ".", "s", "t", "f">>,
     <<"d", "a", "t", "a", "_", "R", "2", "1", ".", "s", "t", "f">>,
     <<"r", "u", "n", "n", "e", "r", "_", ".", "s", "t", "f">>,
     <<"/", "d", "a", "t", "a", "/", "r", "u", "n", "_", "9", "/", "r", "7", ".", "s", "t", "f">>,
     <<"/", "d", "a", "t", "a", "/", "r", "3", "/", "n", "o", "n", "e", ".", "s", "t", "f">>,
     <<"/", "r", "u", "n", "1", "/", "R", "U", "N", "_", "2", "_", "r", "u", "n", "3", ".", "s", "t", "f">>}
DefaultRunNumbers == {1, 5}
ExtractRunNumber(path_chars, default_run_number) ==
    /\ mode = "unit"
    /\ pc = "unit"
    /\ pc' = "returned"
    /\ unit' = [handler |-> "extract_run_number", file_path |-> path_chars,
                default_run_number |-> default_run_number,
                out |-> extract_run_number(BaseName(path_chars), default_run_number)]
    /\ UNCHANGED <<mode, config, track_workflow, running, stf_messages_processed,
                   files_processed, processing_stats, rng, cycle, api, sent,
                   status, logs, last, catalog, scans, client>>

\* get_or_create_run applied to a run number and to the answers of the
\* catalog: the GET fails, or returns no, one or two runs in either shape;
\* the POST fails or returns the created run
RunNumbers == {42, 99}
RunResponses(run_number) ==
    {[paginated |-> p, results |-> r] :
        p \in BOOLEAN,
        r \in {<<>>, <<RunRecord(run_number)>>,
               <<RunRecord(run_number), RunRecord(7)>>,
               <<RunRecord(7), RunRecord(run_number)>>}}
GetOrCreateRun(run_number, lookup_ok, runs_response, create_ok) ==
    /\ mode = "unit"
    /\ pc = "unit"
    /\ pc' = "returned"
    /\ unit' = [handler |-> "get_or_create_run", run_number |-> run_number,
                lookup_ok |-> lookup_ok, runs_response |-> runs_response,
                create_ok |-> create_ok,
                out |-> get_or_create_run_given(
                            run_number, lookup_ok, runs_response, create_ok,
                            {runs_response.results[k].run_number :
                                k \in 1..Len(runs_response.results)})]
    /\ UNCHANGED <<mode, config, track_workflow, running, stf_messages_processed,
                   files_processed, processing_stats, rng, cycle, api, sent,
                   status, logs, last, catalog, scans, client>>

\* record_stf_file applied to a file, a configuration, a catalog and the fate
\* of each of its steps
StfConfigs ==
    {BaseConfig, WithKey(BaseConfig, "calculate_checksum", FALSE),
     Without(BaseConfig, "calculate_checksum")}
StfEnvs ==
    [stat : BOOLEAN, lookup : {"list", "paginated", "fail"}, create : BOOLEAN,
     read : BOOLEAN, post : BOOLEAN]
StfCatalogs == {[runs |-> r, stf_files |-> 0] : r \in {{}, {42}}}
RecordStf(file_path, config_, cat, env) ==
    /\ mode = "unit"
    /\ pc = "unit"
    /\ pc' = "returned"
    /\ unit' = [handler |-> "record_stf_file", file_path |-> file_path,
                config |-> config_, cat |-> cat, env |-> env,
                out |-> record_stf_file(file_path, config_, cat, env)]
    /\ UNCHANGED <<mode, config, track_workflow, running, stf_messages_processed,
                   files_processed, processing_stats, rng, cycle, api, sent,
                   status, logs, last, catalog, scans, client>>

(***************************************************************************)
(* find_recent_files (fastmon_utils.py:39-76).  fs gives, for each watch   *)
(* directory, whether it exists, its entries in the order glob yields them *)
(* (path, whether a regular file, st_ctime in seconds, the patterns the    *)
(* name matches) and raises_at: 0 when the scan raises nothing, k when the *)
(* scan raises as it reaches its k-th entry (a glob or a stat that fails). *)
(* The files appended before the exception stay in the result.             *)
(***************************************************************************)
Cutoff(config_, now) ==
    IF config_["lookback_time"] # 0
    THEN [set |-> TRUE, at |-> now - 60 * config_["lookback_time"]]
    ELSE [set |-> FALSE, at |-> 0]
RECURSIVE GlobAll(_, _)
GlobAll(entries, file_patterns) ==
    IF file_patterns = <<>> THEN <<>>
    ELSE SelectSeq(entries, LAMBDA e : Head(file_patterns) \in e.patterns)
         \o GlobAll(entries, Tail(file_patterns))
Recent_strictly_after(e, cutoff) == e.regular /\ (~cutoff.set \/ e.ctime > cutoff.at)
Recent(e, cutoff) == e.regular /\ ~(cutoff.set /\ e.ctime < cutoff.at)
ScanDirectory(dir, file_patterns, cutoff) ==
    IF ~dir.exists THEN [files |-> <<>>, errors |-> 1]
    ELSE LET found == GlobAll(dir.entries, file_patterns)
             reached == IF dir.raises_at > 0
                        THEN SubSeq(found, 1, Min(dir.raises_at - 1, Len(found)))
                        ELSE found
             kept == SelectSeq(reached, LAMBDA e : Recent(e, cutoff))
         IN [files |-> [k \in 1..Len(kept) |-> kept[k].path],
             errors |-> IF dir.raises_at > 0 THEN 1 ELSE 0]
RECURSIVE ScanAll(_, _, _, _)
ScanAll(watch_directories, file_patterns, cutoff, fs) ==
    IF watch_directories = <<>> THEN [matching_files |-> <<>>, errors |-> 0]
    ELSE LET first == ScanDirectory(fs[Head(watch_directories)], file_patterns, cutoff)
             rest == ScanAll(Tail(watch_directories), file_patterns, cutoff, fs)
         IN [matching_files |-> first.files \o rest.matching_files,
             errors |-> first.errors + rest.errors]
find_recent_files(config_, fs, now) ==
    ScanAll(config_["watch_directories"], config_["file_patterns"],
            Cutoff(config_, now), fs)

\* the clock, file systems and configurations find_recent_files is applied to
NowSeconds == 6000
LookbackMinutes == {0, 30, 60}
WatchDirs == {"d1", "d2"}
Entries(d) ==
    <<[path |-> <<d, "old.stf">>, regular |-> TRUE, ctime |-> 4199, patterns |-> {"*.stf"}],
      [path |-> <<d, "edge.stf">>, regular |-> TRUE, ctime |-> 4200, patterns |-> {"*.stf"}],
      [path |-> <<d, "sub.stf">>, regular |-> FALSE, ctime |-> 6000, patterns |-> {"*.stf"}],
      [path |-> <<d, "notes.txt">>, regular |-> TRUE, ctime |-> 6000, patterns |-> {}],
      [path |-> <<d, "NEW.STF">>, regular |-> TRUE, ctime |-> 6000, patterns |-> {"*.STF"}]>>
DirStates(d) ==
    {[exists |-> FALSE, entries |-> <<>>, raises_at |-> 0]}
    \cup {[exists |-> TRUE, entries |-> Entries(d), raises_at |-> k] : k \in {0, 1, 3}}
    \cup {[exists |-> TRUE, entries |-> <<>>, raises_at |-> 0]}
FileSystems == {fs \in [WatchDirs -> UNION {DirStates(d) : d \in WatchDirs}] :
                   \A d \in WatchDirs : fs[d] \in DirStates(d)}
DiscoveryConfigs ==
    {[watch_directories |-> w, file_patterns |-> <<"*.stf", "*.STF">>, lookback_time |-> l] :
        w \in {<<"d1">>, <<"d1", "d2">>, <<"d2", "d1">>}, l \in LookbackMinutes}
FindRecentFiles(config_, fs) ==
    /\ mode = "unit"
    /\ pc = "unit"
    /\ pc' = "returned"
    /\ unit' = [handler |-> "find_recent_files", config |-> config_, fs |-> fs,
                now |-> NowSeconds,
                out |-> find_recent_files(config_, fs, NowSeconds)]
    /\ UNCHANGED <<mode, config, track_workflow, running, stf_messages_processed,
                   files_processed, processing_stats, rng, cycle, api, sent,
                   status, logs, last, catalog, scans, client>>

(***************************************************************************)
(* One scan cycle as a function of what discovery found (main.py:67-130):  *)
(* the files are selected, then registered and sampled one after the       *)
(* other; the POST /stf-files/ of the file at position fail_at fails (0:   *)
(* no call fails), which ends the cycle.  The result gives the batch, the  *)
(* number of STF records created and whether the cycle ended in its        *)
(* except branch.                                                          *)
(***************************************************************************)
RECURSIVE RegisterBatch(_, _, _, _, _, _)
RegisterBatch(selected, k, config_, cat, r, fail_at) ==
    IF k > Len(selected) THEN [registered |-> 0, raised |-> FALSE]
    ELSE LET n == GetOr(config_, "tf_files_per_stf", DefaultTfFilesPerStf)
             env == IF k = fail_at
                    THEN CycleEnv([StfOk EXCEPT !.post = FALSE], <<>>)
                    ELSE CycleEnv(StfOk, [j \in 1..n |-> "ok"])
             one == RegisterAndSample(record_stf_file(selected[k], config_, cat, env.stf),
                                      config_, FALSE, env, r)
             rest == RegisterBatch(selected, k + 1, config_, one.cat, one.rng, fail_at)
         IN IF one.raised THEN [registered |-> 0, raised |-> TRUE]
            ELSE [registered |-> 1 + rest.registered, raised |-> rest.raised]
emulate_stf_registration_and_sampling(recent_files, config_, pick, fail_at) ==
    IF recent_files = <<>>
    THEN [selected |-> <<>>, registered |-> 0, raised |-> FALSE]
    ELSE [selected |-> SelectFiles(recent_files, config_, pick)]
         @@ RegisterBatch(SelectFiles(recent_files, config_, pick), 1, config_,
                          [runs |-> {}, stf_files |-> 0], 1, fail_at)
\* what discovery found: one list of each length
CycleLists ==
    {[k \in 1..n |-> IF k % 3 = 1 THEN PathA ELSE IF k % 3 = 2 THEN PathB ELSE PathC] :
        n \in 0..MaxSampleFiles}
CycleFractions == {10, 75, 100}
CyclePicks(recent_files, selection_fraction) ==
    IF selection_fraction < 100
    THEN Picks(Len(recent_files), SelectionCount(Len(recent_files), selection_fraction))
    ELSE {<<>>}
ScanOnce(recent_files, config_, pick, fail_at) ==
    /\ mode = "unit"
    /\ pc = "unit"
    /\ pc' = "returned"
    /\ unit' = [handler |-> "scan_cycle", recent_files |-> recent_files,
                config |-> config_, pick |-> pick, fail_at |-> fail_at,
                out |-> emulate_stf_registration_and_sampling(
                            recent_files, config_, pick, fail_at)]
    /\ UNCHANGED <<mode, config, track_workflow, running, stf_messages_processed,
                   files_processed, processing_stats, rng, cycle, api, sent,
                   status, logs, last, catalog, scans, client>>

\* the call has returned to its caller; the next call starts afresh
ReturnUnit ==
    /\ mode = "unit"
    /\ pc = "returned"
    /\ pc' = "unit"
    /\ unit' = Idle
    /\ UNCHANGED <<mode, config, track_workflow, running, stf_messages_processed,
                   files_processed, processing_stats, rng, cycle, api, sent,
                   status, logs, last, catalog, scans, client>>

NextUnit ==
    \/ \E tf_metadata \in TfDescriptors, outcome \in {"ok", "postfail"} :
          RecordTf(tf_metadata, outcome)
    \/ \E stf_file \in SimStfFiles, config_ \in SimConfigs, r \in 1..Len(JitterTable) :
          SimulateTf(stf_file, config_, r)
    \/ \E files \in SampleLists, selection_fraction \in SampleFractions :
          \E pick \in Picks(Len(files), SelectionCount(Len(files), selection_fraction)) :
             SampleFiles(files, selection_fraction, pick)
    \/ \E config_ \in ValidationConfigs : ValidateConfig(config_)
    \/ \E path_chars \in RunPaths, default_run_number \in DefaultRunNumbers :
          ExtractRunNumber(path_chars, default_run_number)
    \/ \E run_number \in RunNumbers, lookup_ok \in BOOLEAN, create_ok \in BOOLEAN :
          \E runs_response \in RunResponses(run_number) :
             GetOrCreateRun(run_number, lookup_ok, runs_response, create_ok)
    \/ \E file_path \in {PathA, PathC}, config_ \in StfConfigs, cat \in StfCatalogs,
          env \in StfEnvs :
          RecordStf(file_path, config_, cat, env)
    \/ \E config_ \in DiscoveryConfigs, fs \in FileSystems : FindRecentFiles(config_, fs)
    \/ \E recent_files \in CycleLists, f \in CycleFractions, fail_at \in 0..TestLimit :
          \E pick \in CyclePicks(recent_files, f) :
             ScanOnce(recent_files,
                      WithKey(WithKey(BaseConfig, "tf_files_per_stf", 1),
                              "selection_fraction", f),
                      pick, fail_at)
    \/ ReturnUnit

SpecUnit == InitUnit /\ [][NextUnit]_vars

(***************************************************************************)
(* The display client (swf_fastmon_client/main.py).  An SSE event is the   *)
(* list of its lines; a line is its prefix and the rest.  A text is        *)
(* [json |-> v] when json.loads decodes it to v and [raw |-> s] when       *)
(* json.loads raises JSONDecodeError (the empty text included); the name   *)
(* of an event type is a raw text.  A decoded value is a dict or            *)
(* NotAMapping (a JSON list or number).  A run_number that is a JSON list  *)
(* is Unhashable; a missing or null run_number is 0, falsy like None.      *)
(* printed lists what the handler wrote to the terminal.                   *)
(***************************************************************************)
MaxSseEvents == 3
Unhashable == 0 - 2
Json(v) == [json |-> v]
Raw(chars) == [raw |-> chars]
EventLine(event_type) == [prefix |-> "event: ", rest |-> Raw(event_type)]
DataLine(text) == [prefix |-> "data: ", rest |-> text]
IdLine == [prefix |-> "id: ", rest |-> Raw("17")]
json_loads(text) ==
    IF "json" \in DOMAIN text THEN [raised |-> FALSE, value |-> text.json]
    ELSE [raised |-> TRUE, value |-> None]
\* the value the loop of main.py:168-172 leaves in a name: the rest of the
\* last line with the prefix, else the initial value
LastLine(event_lines, prefix, initial) ==
    LET with == SelectSeq(event_lines, LAMBDA line : line.prefix = prefix)
    IN IF with = <<>> THEN initial ELSE with[Len(with)].rest

\* main.py:200-241.  The class has no logger attribute: self.logger.debug
\* (main.py:238) raises AttributeError, and so does self.logger.error in the
\* except block (main.py:241), so the call always ends in an exception.
handle_tf_file_notification(c, message_data) ==
    LET file_size == GetOr(message_data, "file_size_bytes", 0)
        run_number == GetOr(message_data, "run_number", 0)
        timestamp == Get(message_data, "timestamp")
        counted == [c EXCEPT !.tf_files_received = @ + 1]
        sized == [counted EXCEPT !.total_file_size = @ + file_size]
        opened == IF run_number \in DOMAIN c.run_statistics
                  THEN c.run_statistics
                  ELSE (run_number :> [tf_count |-> 0, total_size |-> 0,
                                       first_seen |-> timestamp])
                       @@ c.run_statistics
        updated == [opened EXCEPT ![run_number] =
                       [@ EXCEPT !.tf_count = @ + 1, !.total_size = @ + file_size]]
    IN IF file_size = NonNumeric
       THEN \* total_file_size += file_size raises TypeError (main.py:220)
            [client |-> counted, printed |-> <<>>, raised |-> TRUE]
       ELSE IF run_number = 0
       THEN [client |-> sized, printed |-> <<"tf">>, raised |-> TRUE]
       ELSE IF run_number = Unhashable
       THEN \* `run_number not in self.run_statistics` raises TypeError (main.py:224)
            [client |-> sized, printed |-> <<>>, raised |-> TRUE]
       ELSE [client |-> [sized EXCEPT !.run_statistics = updated],
             printed |-> <<"tf">>, raised |-> TRUE]

\* a variant that dispatches the data of a connected event as well
handle_sse_event_dispatches_connected(c, event_lines) ==
    LET event_type == LastLine(event_lines, "event: ", Raw("message")).raw
        event_data == LastLine(event_lines, "data: ", Raw(""))
        loaded == json_loads(event_data)
        data == loaded.value
        handled == handle_tf_file_notification(c, data)
    IN IF event_type = "heartbeat"
       THEN [client |-> c, printed |-> <<>>]
       ELSE IF loaded.raised
       THEN [client |-> c, printed |-> <<"non_json">>]
       ELSE IF ~IsMapping(data)
       THEN [client |-> c, printed |-> <<"error">>]
       ELSE IF GetOr(data, "msg_type", "unknown") = "tf_file_registered"
       THEN [client |-> handled.client,
             printed |-> handled.printed \o (IF handled.raised THEN <<"error">> ELSE <<>>)]
       ELSE [client |-> c, printed |-> <<"other">>]

\* main.py:164-198
handle_sse_event(c, event_lines) ==
    LET event_type == LastLine(event_lines, "event: ", Raw("message")).raw
        event_data == LastLine(event_lines, "data: ", Raw(""))
        loaded == json_loads(event_data)
        data == loaded.value
        handled == handle_tf_file_notification(c, data)
    IN IF event_type = "connected"
       THEN [client |-> c,
             printed |-> IF ~loaded.raised /\ IsMapping(data)
                         THEN <<"connected", "client_id">> ELSE <<"connected">>]
       ELSE IF event_type = "heartbeat"
       THEN [client |-> c, printed |-> <<>>]
       ELSE IF loaded.raised
       THEN [client |-> c, printed |-> <<"non_json">>]
       ELSE IF ~IsMapping(data)
       THEN \* data.get raises AttributeError (main.py:189)
            [client |-> c, printed |-> <<"error">>]
       ELSE IF GetOr(data, "msg_type", "unknown") = "tf_file_registered"
       THEN [client |-> handled.client,
             printed |-> handled.printed \o (IF handled.raised THEN <<"error">> ELSE <<>>)]
       ELSE [client |-> c, printed |-> <<"other">>]

\* a notification as create_tf_message builds it and the monitor relays it
TfNotification(run_number, file_size_bytes) ==
    [msg_type |-> "tf_file_registered", processed_by |-> AgentName,
     tf_file_id |-> "tf-uuid-1", tf_filename |-> <<"run_42_data.stf", 1>>,
     file_size_bytes |-> file_size_bytes, stf_filename |-> "run_42_data.stf",
     run_number |-> run_number, status |-> REGISTERED,
     timestamp |-> "2025-01-01T00:00:00"]
SseEvents ==
    {<<DataLine(Json(TfNotification(42, 100)))>>,
     <<IdLine, EventLine("message"), DataLine(Json(TfNotification(7, 200)))>>,
     <<EventLine("tf"), DataLine(Json(Without(TfNotification(42, 100), "file_size_bytes")))>>,
     <<DataLine(Json(Without(TfNotification(42, 100), "run_number")))>>,
     <<DataLine(Json(WithKey(TfNotification(42, 100), "run_number", Unhashable)))>>,
     <<DataLine(Json(WithKey(TfNotification(42, 100), "file_size_bytes", NonNumeric)))>>,
     <<DataLine(Json(TfNotification(42, 100))), DataLine(Json([msg_type |-> "stf_ready"]))>>,
     <<EventLine("connected"), DataLine(Json([client_id |-> "c-1"]))>>,
     <<EventLine("connected"), DataLine(Json(TfNotification(42, 100)))>>,
     <<EventLine("heartbeat")>>,
     <<EventLine("heartbeat"), DataLine(Json(TfNotification(42, 100)))>>,
     <<DataLine(Json([msg_type |-> "stf_ready", filename |-> "run_42_data.stf"]))>>,
     <<DataLine(Json([filename |-> "run_42_data.stf"]))>>,
     <<DataLine(Json(NotAMapping))>>,
     <<DataLine(Raw("tf_file_registered"))>>,
     <<EventLine("message")>>}

InitClient ==
    /\ mode = "client"
    /\ config = BaseConfig
    /\ track_workflow = FALSE
    /\ running = TRUE
    /\ stf_messages_processed = 0
    /\ files_processed = 0
    /\ processing_stats =
           [total_stf_messages |-> 0, total_tf_files_created |-> 0, total_files |-> 0]
    /\ rng = 1
    /\ pc = "stream"
    /\ cycle = NoCycle
    /\ api = <<>>
    /\ sent = <<>>
    /\ status = <<>>
    /\ logs = [errors |-> 0, warnings |-> 0]
    /\ last = Idle
    /\ catalog = [runs |-> {}, stf_files |-> 0]
    /\ scans = 0
    /\ unit = Idle
    /\ client = NewClient

\* _process_sse_stream hands a complete event to _handle_sse_event
\* (main.py:149-152); the loop over the lines does not read self.running.
\* scans counts the events of the stream.
HandleSseEvent(event_lines) ==
    /\ mode = "client"
    /\ pc = "stream"
    /\ scans < MaxSseEvents
    /\ scans' = scans + 1
    /\ \E out \in {handle_sse_event(client, event_lines)} :
       /\ client' = out.client
       /\ last' = [handler |-> "sse_event", event_lines |-> event_lines,
                   printed |-> out.printed]
    /\ UNCHANGED <<mode, config, track_workflow, running, stf_messages_processed,
                   files_processed, processing_stats, rng, pc, cycle, api, sent,
                   status, logs, catalog, unit>>

\* _signal_handler (main.py:77-80)
SignalHandler ==
    /\ mode = "client"
    /\ client.running
    /\ client' = [client EXCEPT !.running = FALSE]
    /\ UNCHANGED <<mode, config, track_workflow, running, stf_messages_processed,
                   files_processed, processing_stats, rng, pc, cycle, api, sent,
                   status, logs, last, catalog, scans, unit>>

NextClient ==
    \/ \E event_lines \in SseEvents : HandleSseEvent(event_lines)
    \/ SignalHandler

SpecClient == InitClient /\ [][NextClient]_vars

(***************************************************************************)
(* What the properties below read from a state.  An event was sampled when *)
(* the last step ran sample_timeframes on it: an stf_ready frame handled   *)
(* by on_message, or a file of a scan cycle that was registered and whose  *)
(* synthesized event was sampled.  api and sent then hold the calls and    *)
(* the notifications of that step.                                         *)
(***************************************************************************)
Sampled ==
    \/ last.handler = "on_message" /\ last.msg_type = "stf_ready"
    \/ last.handler = "file" /\ last.registered
WithFilename ==
    /\ Sampled
    /\ IsMapping(last.message_data)
    /\ Truthy(Get(last.message_data, "filename"))
IsTfPost(c) == c.method = "POST" /\ c.path = "/fastmon-files/"
IsStagePost(c) == c.method = "POST" /\ c.path = "/workflow-stages/"
IsStagePatch(c) == c.method = "PATCH" /\ c.path = "/workflow-stages/{id}/"
IsStageCall(c) == IsStagePost(c) \/ IsStagePatch(c)
TfPosts == SelectSeq(api, IsTfPost)
StageCalls == SelectSeq(api, IsStageCall)
FilesPerStf == GetOr(config, "tf_files_per_stf", DefaultTfFilesPerStf)
AllCallsSucceed ==
    /\ \A i \in DOMAIN api : api[i].ok
    /\ \A i \in DOMAIN sent : sent[i].ok
\* tf_files_per_stf registrations, one notification for each, with the run of
\* the event
RegistersAndNotifiesAll ==
    /\ Len(TfPosts) = FilesPerStf
    /\ Len(sent) = FilesPerStf
    /\ \A i \in DOMAIN sent :
          /\ sent[i].message.msg_type = "tf_file_registered"
          /\ sent[i].message.tf_filename = TfPosts[i].body.tf_filename
          /\ sent[i].message.run_number = Get(last.message_data, "run_id")

\* C1, as stated: every sampled stf_ready event that carries a filename, when
\* all catalog and broker calls succeed, leads to exactly tf_files_per_stf
\* POST /fastmon-files/ and as many tf_file_registered notifications, one per
\* registration, each with run_number equal to the run_id of the event.
C1_AsStated ==
    (WithFilename /\ AllCallsSucceed) => RegistersAndNotifiesAll

\* C1, amended: the same, for the events on which simulate_tf_subsamples hits
\* no internal error (an event whose size_bytes is no number yields no
\* descriptor, hence no registration and no notification).
C1_RegistersAndNotifies ==
    (WithFilename /\ AllCallsSucceed /\ ~SimulationRaises(last.message_data, config))
        => RegistersAndNotifiesAll

\* an event with a filename was sampled with every call succeeding, and led
\* to MaxTfPerStf registrations and notifications
C1_Witness ==
    /\ WithFilename
    /\ AllCallsSucceed
    /\ ~SimulationRaises(last.message_data, config)
    /\ FilesPerStf = MaxTfPerStf
    /\ Len(TfPosts) = MaxTfPerStf
    /\ Len(sent) = MaxTfPerStf

\* a file of a scan cycle whose registration raised while selected files remain
FileFailedBeforeOthers ==
    /\ last.handler = "file"
    /\ ~last.registered
    /\ cycle.done + 1 < Len(cycle.selected)

\* C2, as stated: when record_stf_file fails for one file of a scan cycle with
\* several selected files, the cycle continues with the remaining selected
\* files instead of halting the batch.
C2_AsStated ==
    FileFailedBeforeOthers => (pc = "file" /\ ~cycle.failed)

\* the first of two selected files failed to register and the cycle ended
\* with an ERROR report, the second file untouched
C2_Witness ==
    /\ FileFailedBeforeOthers
    /\ cycle.done = 0
    /\ Len(cycle.selected) = 2
    /\ pc = "heartbeat"
    /\ status = <<"ERROR">>

\* C3: an error local to one file or one event never stops the scheduler.  An
\* exception inside a scan cycle is caught, one ERROR status is reported and
\* the loop is at its heartbeat, from where the heartbeat, the sleep and the
\* next cycle can be taken; an exception while an
\* stf_ready event is processed is caught in on_message, exactly one ERROR
\* status is reported, the handler returns, and sample_timeframes was invoked
\* once for the event (no retry).
C3_ErrorsNeverStop ==
    /\ (last.handler = "file" /\ last.raised)
          => (pc = "heartbeat" /\ status = <<"ERROR">> /\ cycle.failed)
    /\ (last.handler = "on_message" /\ last.raised)
          => /\ pc = "handled"
             /\ status = <<"ERROR">>
             /\ ~last.propagated
             /\ last.invocations = 1
    /\ (mode = "continuous" /\ status = <<"ERROR">>)
          => /\ pc = "heartbeat" => ENABLED Heartbeat
             /\ pc = "sleep" => ENABLED Sleep
             /\ (pc = "scan" /\ scans < MaxScans) => ENABLED ScanCycle(<<>>, <<>>)

\* after a cycle that ended with an ERROR report, the loop went through the
\* heartbeat and the sleep and started the next cycle
C3_Witness ==
    /\ last.handler = "scan"
    /\ last.after = <<"ERROR">>
    /\ pc = "file"

\* record_tf_file was applied to a descriptor it cannot register: a required
\* field is missing, or the catalog call fails
TfRegistrationFails ==
    /\ unit.handler = "record_tf_file"
    /\ \/ unit.outcome = "postfail"
       \/ "tf_filename" \notin DOMAIN unit.tf_metadata
       \/ "file_size_bytes" \notin DOMAIN unit.tf_metadata

\* C4, as stated: record_tf_file never raises; for every descriptor, also one
\* with missing fields, and every failure of the catalog call it returns an
\* empty result and logs exactly one error.
C4_AsStated ==
    /\ unit.handler = "record_tf_file" => ~unit.out.raised
    /\ TfRegistrationFails => (unit.out.result = EmptyDict /\ unit.out.errors = 1)

\* a descriptor without tf_filename made record_tf_file raise, with no error
\* logged
C4_Witness ==
    /\ unit.handler = "record_tf_file"
    /\ "tf_filename" \notin DOMAIN unit.tf_metadata
    /\ unit.out.raised
    /\ unit.out.errors = 0

\* what C5 says of the descriptors simulate_tf_subsamples returned
SimulatedAll ==
    LET tf_subsamples == unit.out.tf_subsamples
        tf_files_per_stf == GetOr(unit.config, "tf_files_per_stf", DefaultTfFilesPerStf)
        tf_sequence_start == GetOr(unit.config, "tf_sequence_start", DefaultTfSequenceStart)
    IN /\ Len(tf_subsamples) = tf_files_per_stf
       /\ \A k \in DOMAIN tf_subsamples :
             /\ tf_subsamples[k].sequence_number = tf_sequence_start + (k - 1)
             /\ tf_subsamples[k].stf_file_id = Get(unit.stf_file, "file_id")
             /\ tf_subsamples[k].stf_parent = Get(unit.stf_file, "filename")
       /\ \A j, k \in DOMAIN tf_subsamples :
             j < k => tf_subsamples[j].sequence_number < tf_subsamples[k].sequence_number

\* C5, as stated: simulate_tf_subsamples returns exactly tf_files_per_stf
\* descriptors (default 2), the i-th (from 0) with sequence_number
\* tf_sequence_start + i, each with the parent's file_id as stf_file_id and the
\* parent's filename as stf_parent.
C5_AsStated ==
    unit.handler = "simulate_tf_subsamples" => SimulatedAll

\* C5, amended: the same whenever the simulation hits no internal error; on an
\* internal error (a size that is no number) the result is the empty list.
C5_Simulated ==
    unit.handler = "simulate_tf_subsamples"
        => IF SimulationRaises(unit.stf_file, unit.config)
           THEN unit.out.tf_subsamples = <<>>
           ELSE SimulatedAll

\* MaxTfPerStf descriptors were returned, numbered from an offset that is not
\* the default
C5_Witness ==
    /\ unit.handler = "simulate_tf_subsamples"
    /\ Len(unit.out.tf_subsamples) = MaxTfPerStf
    /\ GetOr(unit.config, "tf_sequence_start", DefaultTfSequenceStart) = 5
    /\ unit.out.tf_subsamples[MaxTfPerStf].sequence_number = 5 + MaxTfPerStf - 1

\* the stage calls of the sampled event, by the status they write
StatusOf(c) == c.body.status
CompletionCalls == SelectSeq(StageCalls, LAMBDA c : StatusOf(c) = "fastmon_complete")
FailedStageCalls == SelectSeq(StageCalls, LAMBDA c : ~c.ok)
WithWorkflowId ==
    /\ Sampled
    /\ IsMapping(last.message_data)
    /\ Truthy(Get(last.message_data, "workflow_id"))
\* tracking is active for the sampled event, and what the catalog answered to
\* the creation of its stage
TrackingActive == WithFilename /\ WithWorkflowId /\ track_workflow
StageAnswer == last.env.stage

\* C6: when simulate_tf_subsamples hits an internal error, sample_timeframes
\* registers no TF, sends no notification, reports no ERROR status and still
\* completes: it returns the empty list, updates the statistics, and writes
\* the completion of the workflow stage when tracking created one.
C6_EmptySimulationIsValid ==
    (WithFilename /\ SimulationRaises(last.message_data, config))
        => /\ TfPosts = <<>>
           /\ sent = <<>>
           /\ status = <<>>
           /\ ~last.raised
           /\ last.tf_files_registered = <<>>
           /\ last.stats_updated
           /\ logs.errors = 1
           /\ (TrackingActive /\ StageAnswer = "ok")
                 => /\ Len(CompletionCalls) = 1
                    /\ StatusOf(api[Len(api)]) = "fastmon_complete"
                    /\ api[Len(api)].body.output_message.tf_files_created = 0

\* a tracked event whose size is no number was sampled: nothing registered,
\* the stage completed
C6_Witness ==
    /\ WithFilename
    /\ SimulationRaises(last.message_data, config)
    /\ TrackingActive
    /\ StageAnswer = "ok"
    /\ Len(CompletionCalls) = 1
    /\ TfPosts = <<>>

\* one POST with fastmon_received, then the PATCHes to fastmon_processing
\* and to fastmon_complete, in this order
FullStageSequence ==
    /\ Len(StageCalls) = 3
    /\ IsStagePost(StageCalls[1]) /\ StatusOf(StageCalls[1]) = "fastmon_received"
    /\ IsStagePatch(StageCalls[2]) /\ StatusOf(StageCalls[2]) = "fastmon_processing"
    /\ IsStagePatch(StageCalls[3]) /\ StatusOf(StageCalls[3]) = "fastmon_complete"
    /\ StageCalls[2].id = StageId /\ StageCalls[3].id = StageId

\* C7, as stated: for every stf_ready event processed with tracking enabled
\* and a workflow id, exactly one stage is created (POST, fastmon_received)
\* and exactly two transitions follow, fastmon_processing then
\* fastmon_complete.
C7_AsStated ==
    (WithWorkflowId /\ track_workflow) => FullStageSequence

\* C7, amended: for such an event that carries a filename, exactly one POST
\* /workflow-stages/ is issued; when it returns a stage with an id the two
\* PATCHes follow in order (each issued whether or not the other succeeds);
\* when it returns no id only the processing PATCH is issued, and when it
\* fails no PATCH is issued.
C7_StageSequence ==
    TrackingActive
        => /\ Len(SelectSeq(StageCalls, IsStagePost)) = 1
           /\ IsStagePost(StageCalls[1]) /\ StatusOf(StageCalls[1]) = "fastmon_received"
           /\ StageAnswer = "ok" => FullStageSequence
           /\ StageAnswer = "noid"
                 => /\ Len(StageCalls) = 2
                    /\ IsStagePatch(StageCalls[2])
                    /\ StatusOf(StageCalls[2]) = "fastmon_processing"
           /\ StageAnswer = "fail" => Len(StageCalls) = 1

\* a tracked event ran the full sequence around its TF registrations
C7_Witness ==
    /\ TrackingActive
    /\ StageAnswer = "ok"
    /\ FullStageSequence
    /\ AllCallsSucceed
    /\ Len(TfPosts) = MaxTfPerStf

\* C8: with the tracking flag disabled, or without a workflow id in the
\* event, processing the event makes no call to /workflow-stages/.
C8_NoTrackingCalls ==
    (Sampled /\ ~(track_workflow /\ WithWorkflowId)) => StageCalls = <<>>

\* an event with a workflow id was sampled with the flag disabled: TFs were
\* registered, no stage call was made
C8_Witness ==
    /\ WithFilename
    /\ WithWorkflowId
    /\ ~track_workflow
    /\ Len(TfPosts) > 0
    /\ StageCalls = <<>>

StatusRank(c) ==
    CASE StatusOf(c) = "fastmon_received" -> 1
      [] StatusOf(c) = "fastmon_processing" -> 2
      [] OTHER -> 3
\* no status write follows a write of a later (or the same) status
ForwardOnly ==
    \A j, k \in DOMAIN StageCalls :
        j < k => StatusRank(StageCalls[j]) < StatusRank(StageCalls[k])
StageCreated == \E k \in DOMAIN StageCalls : IsStagePost(StageCalls[k]) /\ StageCalls[k].ok

\* C9, as stated: the stage only moves forward, and the write of
\* fastmon_complete is made exactly once for every stage that was created.
C9_AsStated ==
    Sampled => /\ ForwardOnly
               /\ StageCreated => Len(CompletionCalls) = 1

\* C9, amended: the stage only moves forward; the write of fastmon_complete
\* is issued exactly once when the creation returned a stage id, also when
\* the processing PATCH failed, and succeeds or not with the catalog; it is
\* not issued when the creation returned no id.
C9_ForwardAndCompletion ==
    Sampled => /\ ForwardOnly
               /\ Len(CompletionCalls) <= 1
               /\ StageCreated
                     => /\ StageAnswer = "ok" => Len(CompletionCalls) = 1
                        /\ StageAnswer = "noid" => Len(CompletionCalls) = 0
                        /\ \A k \in DOMAIN CompletionCalls :
                              CompletionCalls[k].ok = last.env.complete

\* the processing PATCH failed and the completion was still issued, last
C9_Witness ==
    /\ TrackingActive
    /\ Len(StageCalls) = 3
    /\ ~StageCalls[2].ok
    /\ StatusOf(StageCalls[3]) = "fastmon_complete"
    /\ Len(TfPosts) > 0

\* C10: tracking is observational only.  What an event leads to, apart from
\* the stage calls and the warnings, is what the same event leads to with
\* tracking disabled: the TF registrations, the notifications, the counters
\* and the returned list; each failed tracking call is logged as one warning
\* and sample_timeframes does not raise.
C10_TrackingObservational ==
    (last.handler = "on_message" /\ WithFilename)
        => LET untracked == sample_timeframes(last.message_data, config, FALSE,
                                              last.env, last.rng)
           IN /\ TfPosts = SelectSeq(untracked.api, IsTfPost)
              /\ sent = untracked.sent
              /\ last.tf_files_registered = untracked.tf_files_registered
              /\ last.tf_files_created = untracked.tf_files_created
              /\ last.stats_updated = untracked.stats_updated
              /\ last.invocations = 1
              /\ rng = untracked.rng
              /\ logs.errors = untracked.errors
              /\ logs.warnings = Len(FailedStageCalls)
              /\ ~last.raised
              /\ status = <<>>

\* the creation of the stage failed; the TFs were registered and notified
C10_Witness ==
    /\ last.handler = "on_message"
    /\ TrackingActive
    /\ StageAnswer = "fail"
    /\ logs.warnings = 1
    /\ Len(TfPosts) = MaxTfPerStf
    /\ Len(sent) = MaxTfPerStf

\* the TF registrations of the sampled event that returned a record, and the
\* sends that failed
CreatedTfPosts == SelectSeq(TfPosts, LAMBDA c : c.ok)
FailedSends == SelectSeq(sent, LAMBDA n : ~n.ok)
NoErrorStatus == \A k \in DOMAIN status : status[k] # "ERROR"

\* C11: a failed publish of a TF notification is swallowed and rolls nothing
\* back.  When a send failed while an event was sampled, sample_timeframes
\* did not raise and no ERROR status was reported, every descriptor was still
\* registered, every registered TF was notified (one attempt each, in order),
\* all of them are counted in the statistics and returned, the failure is
\* logged as one error, and no call undoes a registration.
C11_SendFailureSwallowed ==
    (Sampled /\ FailedSends # <<>>)
        => /\ ~last.raised
           /\ NoErrorStatus
           /\ Len(TfPosts) = FilesPerStf
           /\ Len(sent) = Len(CreatedTfPosts)
           /\ \A k \in DOMAIN sent :
                 sent[k].message.tf_filename = CreatedTfPosts[k].body.tf_filename
           /\ last.stats_updated
           /\ last.tf_files_created = Len(CreatedTfPosts)
           /\ Len(SelectSeq(last.tf_files_registered, NonEmpty)) = Len(CreatedTfPosts)
           /\ last.handler = "on_message"
                 => logs.errors = (Len(TfPosts) - Len(CreatedTfPosts)) + Len(FailedSends)
           /\ \A k \in DOMAIN api : api[k].method \in {"GET", "POST", "PATCH"}

\* the first notification failed; the second descriptor was still registered
\* and notified, and both TFs are counted
C11_Witness ==
    /\ Sampled
    /\ Len(sent) = 2
    /\ ~sent[1].ok
    /\ sent[2].ok
    /\ last.tf_files_created = 2

\* C12, as stated: every tf_file_registered notification sent for a sampled
\* event carries the parent's filename: its stf_filename equals the filename
\* field of the event, in both trigger modes.
C12_AsStated ==
    Sampled => \A k \in DOMAIN sent :
                  sent[k].message.stf_filename = Get(last.message_data, "filename")

\* a notification was published for an event with a filename, and its
\* stf_filename is None
C12_Witness ==
    /\ WithFilename
    /\ AllCallsSucceed
    /\ Len(sent) > 0
    /\ sent[1].message.stf_filename = None
    /\ Get(last.message_data, "filename") = "run_42_data.stf"

\* C13: an inbound message whose type is not stf_ready is logged and ignored:
\* handling it makes no catalog call, sends no notification, reports no
\* status, logs one warning, and leaves stf_messages_processed,
\* files_processed, every processing_stats counter and the random source
\* unchanged.
C13_OtherTypesIgnored ==
    [][(last'.handler = "on_message" /\ last'.msg_type # "stf_ready")
          => /\ api' = <<>>
             /\ sent' = <<>>
             /\ status' = <<>>
             /\ logs' = [errors |-> 0, warnings |-> 1]
             /\ last'.invocations = 0
             /\ last'.tf_files_registered = <<>>
             /\ UNCHANGED <<stf_messages_processed, files_processed, processing_stats,
                            rng, config, catalog, client>>]_vars

\* after one stf_ready event, a message of another type that names a file was
\* handled and ignored
C13_Witness ==
    /\ last.handler = "on_message"
    /\ last.msg_type = "run_imminent"
    /\ Truthy(Get(last.message_data, "filename"))
    /\ stf_messages_processed = 1
    /\ processing_stats.total_stf_messages = 1
    /\ api = <<>>

\* a scan cycle has returned: the loop is at its heartbeat
CycleReturned == mode = "continuous" /\ pc = "heartbeat"

\* C14, as stated: every scan cycle ends with exactly one status report, OK
\* or ERROR, including a cycle in which no file was found.
C14_AsStated ==
    CycleReturned => (Len(status) = 1 /\ status[1] \in {"OK", "ERROR"})

\* a cycle that found no file returned with a warning logged and no status
\* reported
C14_Witness ==
    /\ CycleReturned
    /\ last.handler = "scan"
    /\ last.recent_files = <<>>
    /\ status = <<>>
    /\ logs.warnings = 1

\* C15, as stated: the running flag is checked between iterations, so once
\* it is false no further scan cycle is started.  (The flag is cleared while
\* the loop sleeps, so a cycle in progress with the flag false was started
\* after it was cleared.)
C15_AsStated ==
    (mode = "continuous" /\ ~running) => pc \notin {"file", "heartbeat"}

\* a scan cycle was started, and is processing its files, with the running
\* flag false
C15_Witness ==
    /\ mode = "continuous"
    /\ ~running
    /\ pc = "file"
    /\ last.handler = "scan"
    /\ scans = 2

\* C16: for every fraction in [0, 1] and every list of n files, sample_files
\* returns the empty list when n = 0 and otherwise exactly
\* max(1, floor(n * fraction)) items, never more than n, each one an item of
\* the input and no position of the input taken twice.
C16_SampleSize ==
    unit.handler = "sample_files" =>
        LET n == Len(unit.files)
            f == unit.selection_fraction
            floor == (n * f) \div 100
            expected == IF floor >= 1 THEN floor ELSE 1
        IN /\ n = 0 => unit.out = <<>>
           /\ n > 0 => Len(unit.out) = expected
           /\ Len(unit.out) <= n
           /\ \E positions \in [1..Len(unit.out) -> 1..n] :
                 /\ \A k \in 1..Len(unit.out) : unit.out[k] = unit.files[positions[k]]
                 /\ \A j, k \in 1..Len(unit.out) : positions[j] = positions[k] => j = k

\* a fraction of 0 applied to a list of three files keeps one of them
C16_Witness ==
    /\ unit.handler = "sample_files"
    /\ unit.selection_fraction = 0
    /\ Len(unit.files) = 3
    /\ Len(unit.out) = 1

\* C17: validate_config fails exactly when the key selection_fraction is
\* missing (and then the error names that key) or its value lies outside
\* [0.0, 1.0]; otherwise it returns normally (0.0 and 1.0 included); in all
\* cases the configuration mapping is left unchanged.
C17_ValidateConfig ==
    unit.handler = "validate_config" =>
        LET missing == "selection_fraction" \notin DOMAIN unit.config
            outside == /\ ~missing
                       /\ \/ unit.config["selection_fraction"] < 0
                          \/ unit.config["selection_fraction"] > 100
        IN /\ unit.out.raised <=> (missing \/ outside)
           /\ missing =>
                 unit.out.error = "Missing required configuration key: selection_fraction"
           /\ unit.out.config = unit.config

\* the upper boundary 1.0 has been validated and accepted
C17_Witness ==
    /\ unit.handler = "validate_config"
    /\ "selection_fraction" \in DOMAIN unit.config
    /\ unit.config["selection_fraction"] = 100
    /\ ~unit.out.raised

\* the digits that follow the leftmost occurrence of a pattern's literal part
\* (in either case) in the base name of the path of the last call
Occurrences(literal) ==
    {i \in 1..Len(BaseName(unit.file_path)) :
        MatchesAt(BaseName(unit.file_path), i, literal)}
LeftmostGroup(literal) ==
    LET i == CHOOSE h \in Occurrences(literal) : \A g \in Occurrences(literal) : h <= g
    IN DigitsFrom(BaseName(unit.file_path), i + Len(literal), 0)

\* C18: extract_run_number tries run_<digits>, run<digits>, r<digits> in
\* that order, ignoring case, against the base name of the file; the first
\* pattern that matches anywhere in the name gives the result, whatever the
\* positions of the matches, and the default is returned exactly when none
\* of the three matches.
C18_PatternPriority ==
    unit.handler = "extract_run_number" =>
        LET run_ == <<"r", "u", "n", "_">>
            run == <<"r", "u", "n">>
            r == <<"r">>
        IN /\ Occurrences(run_) # {} => unit.out = LeftmostGroup(run_)
           /\ (Occurrences(run_) = {} /\ Occurrences(run) # {}) =>
                  unit.out = LeftmostGroup(run)
           /\ (Occurrences(run_) = {} /\ Occurrences(run) = {} /\ Occurrences(r) # {}) =>
                  unit.out = LeftmostGroup(r)
           /\ (Occurrences(run_) = {} /\ Occurrences(run) = {} /\ Occurrences(r) = {}) =>
                  unit.out = unit.default_run_number
           /\ unit.file_path = <<"r", "7", "_", "r", "u", "n", "_", "4", "2", ".", "s", "t", "f">> => unit.out = 42
           /\ unit.file_path = <<"R", "U", "N", "_", "5", ".", "S", "T", "F">> => unit.out = 5
           /\ unit.file_path = <<"/", "d", "a", "t", "a", "/", "r", "u", "n", "_", "9", "/", "r", "7", ".", "s", "t", "f">> => unit.out = 7
           /\ unit.file_path = <<"r", "u", "n", "n", "e", "r", "_", ".", "s", "t", "f">> =>
                  unit.out = unit.default_run_number

\* a name in which r<digits> occurs before run_<digits>: the later
\* occurrence, of the earlier pattern, has given the run number
C18_Witness ==
    /\ unit.handler = "extract_run_number"
    /\ unit.file_path = <<"r", "7", "_", "r", "u", "n", "_", "4", "2", ".", "s", "t", "f">>
    /\ unit.default_run_number = 1
    /\ unit.out = 42

\* the calls of one method made by the last call of get_or_create_run
RunCalls(method) == SelectSeq(unit.out.calls, LAMBDA c : c.method = method)

\* C19: get_or_create_run first issues one GET /runs/?run_number=<n>; when
\* the response holds at least one run, as a paginated mapping or as a bare
\* list, the first run is returned and no POST is issued; when it holds no
\* run, exactly one POST /runs/ with that run_number and run_conditions
\* marked auto_created is issued and the created record is returned.
C19_GetThenCreate ==
    unit.handler = "get_or_create_run" =>
        /\ Len(unit.out.calls) >= 1
        /\ unit.out.calls[1].method = "GET"
        /\ unit.out.calls[1].path = "/runs/?run_number"
        /\ unit.out.calls[1].body = [run_number |-> unit.run_number]
        /\ Len(RunCalls("GET")) = 1
        /\ (unit.lookup_ok /\ Len(unit.runs_response.results) >= 1) =>
              /\ ~unit.out.raised
              /\ unit.out.run_data = unit.runs_response.results[1]
              /\ Len(RunCalls("POST")) = 0
        /\ (unit.lookup_ok /\ Len(unit.runs_response.results) = 0) =>
              /\ Len(unit.out.calls) = 2
              /\ unit.out.calls[2].method = "POST"
              /\ unit.out.calls[2].path = "/runs/"
              /\ unit.out.calls[2].body.run_number = unit.run_number
              /\ unit.out.calls[2].body.run_conditions = [auto_created |-> TRUE]
              /\ unit.create_ok =>
                    (~unit.out.raised /\ unit.out.run_data = RunRecord(unit.run_number))

\* a bare list of two runs has been answered and its first run returned
C19_Witness ==
    /\ unit.handler = "get_or_create_run"
    /\ unit.lookup_ok
    /\ ~unit.runs_response.paginated
    /\ Len(unit.runs_response.results) = 2
    /\ unit.runs_response.results[1] # unit.runs_response.results[2]
    /\ unit.out.run_data = unit.runs_response.results[1]
    /\ Len(unit.out.calls) = 1

\* C20: an error of the catalog during run resolution propagates to the
\* caller of get_or_create_run and is never retried: the lookup is issued at
\* most once and the create at most once in one invocation, and a failed
\* lookup is not followed by a create.
C20_NoRetry ==
    unit.handler = "get_or_create_run" =>
        /\ Len(RunCalls("GET")) <= 1
        /\ Len(RunCalls("POST")) <= 1
        /\ (\E k \in 1..Len(unit.out.calls) : ~unit.out.calls[k].ok) => unit.out.raised
        /\ ~unit.lookup_ok =>
              (unit.out.raised /\ Len(unit.out.calls) = 1 /\ Len(RunCalls("POST")) = 0)
        /\ (unit.lookup_ok /\ Len(unit.runs_response.results) = 0 /\ ~unit.create_ok) =>
              unit.out.raised

\* the lookup answered no run, the create failed, and the error has
\* propagated after one call of each
C20_Witness ==
    /\ unit.handler = "get_or_create_run"
    /\ unit.lookup_ok
    /\ Len(unit.runs_response.results) = 0
    /\ ~unit.create_ok
    /\ unit.out.raised
    /\ Len(RunCalls("GET")) = 1
    /\ Len(RunCalls("POST")) = 1

IsStfPost(c) == c.method = "POST" /\ c.path = "/stf-files/"
StfPosts == SelectSeq(api, IsStfPost)
IsFileCall(c) == c.path \in {"/stf-files/", "/fastmon-files/"}
\* the run number the name of a watched file stands for
RunNumberOf(file_path) ==
    CASE file_path = PathA -> 42
      [] file_path = PathB -> 7
      [] OTHER -> config["default_run_number"]

\* C21: every catalog record the pipeline creates is written with status
\* registered: a successful record_stf_file has issued exactly one
\* POST /stf-files/ with status registered and the run_id of the resolved
\* run, every TF descriptor leads to one POST /fastmon-files/ with status
\* registered and the identifier of the parent as stf_file, and no call on
\* an STF or TF record is anything but such a POST.
C21_AlwaysRegistered ==
    /\ \A i \in DOMAIN api :
          IsFileCall(api[i]) =>
             /\ api[i].method = "POST"
             /\ api[i].id = None
             /\ api[i].body.status = "registered"
    /\ (last.handler = "file" /\ last.registered) =>
          /\ Len(StfPosts) = 1
          /\ StfPosts[1].ok
          /\ StfPosts[1].body.run = "run-" \o ToString(RunNumberOf(last.file_path))
          /\ StfPosts[1].body.run = last.message_data.run_id
    /\ (last.handler = "file" /\ ~last.registered) =>
          \A i \in DOMAIN api : ~api[i].ok \/ ~IsFileCall(api[i])
    /\ WithFilename =>
          /\ \A k \in DOMAIN TfPosts :
                /\ TfPosts[k].body.stf_file = Get(last.message_data, "file_id")
                /\ TfPosts[k].body.stf_file # Get(last.message_data, "filename")
          /\ Get(last.message_data, "size_bytes") # NonNumeric =>
                Len(TfPosts) = FilesPerStf
    /\ (Sampled /\ ~WithFilename) => Len(TfPosts) = 0

\* a file has been registered in a run created for it, and two TF records
\* have been posted for it
C21_Witness ==
    /\ last.handler = "file"
    /\ last.registered
    /\ \E i \in DOMAIN api : api[i].method = "POST" /\ api[i].path = "/runs/"
    /\ Len(StfPosts) = 1
    /\ Len(TfPosts) = 2
    /\ TfPosts[2].body.stf_file = last.message_data.file_id
    /\ TfPosts[2].body.status = "registered"

\* the steps of the last call of record_stf_file other than the checksum
\* all went well
StfStepsSucceed ==
    /\ unit.env.stat
    /\ unit.env.lookup # "fail"
    /\ unit.env.post
    /\ unit.env.create \/ (unit.file_path = PathA /\ 42 \in unit.cat.runs)
ChecksumEnabled == GetOr(unit.config, "calculate_checksum", FALSE)
UnitStfPosts == SelectSeq(unit.out.calls, LAMBDA c : c.path = "/stf-files/")

\* C22: a checksum I/O error does not abort the registration: with
\* calculate_checksum enabled and the read failing, the checksum is the
\* empty string and record_stf_file still posts the record, with checksum
\* "", and returns it; with calculate_checksum disabled the file is not read
\* and the checksum is the empty string.
C22_ChecksumDegrades ==
    unit.handler = "record_stf_file" =>
        /\ unit.out.raised <=> ~StfStepsSucceed
        /\ StfStepsSucceed =>
              /\ Len(UnitStfPosts) = 1
              /\ UnitStfPosts[1].ok
              /\ unit.out.stf_file.checksum = UnitStfPosts[1].body.checksum
              /\ (ChecksumEnabled /\ ~unit.env.read) =>
                    (UnitStfPosts[1].body.checksum = "" /\ unit.out.errors = 1)
              /\ (ChecksumEnabled /\ unit.env.read) =>
                    (UnitStfPosts[1].body.checksum # "" /\ unit.out.errors = 0)
              /\ ~ChecksumEnabled =>
                    (UnitStfPosts[1].body.checksum = "" /\ unit.out.errors = 0)

\* the checksum was asked for, the read failed, and the record was posted
\* with an empty checksum and returned
C22_Witness ==
    /\ unit.handler = "record_stf_file"
    /\ ChecksumEnabled
    /\ ~unit.env.read
    /\ ~unit.out.raised
    /\ unit.out.stf_file.checksum = ""
    /\ unit.out.stf_file.file_id = "stf-uuid-1"
    /\ unit.out.errors = 1

\* C23: in continuous mode every POST /fastmon-files/ carries as stf_file
\* the file_id returned by a POST /stf-files/ that succeeded before it in
\* the same cycle, and no TF is registered for a file whose STF
\* registration failed.
C23_ParentCreatedEarlier ==
    (mode = "continuous" /\ last.handler = "file") =>
        /\ \A k \in DOMAIN api :
              IsTfPost(api[k]) =>
                 /\ \E j \in 1..(k - 1) : IsStfPost(api[j]) /\ api[j].ok
                 /\ api[k].body.stf_file = "stf-uuid-" \o ToString(catalog.stf_files)
                 /\ catalog.stf_files >= 1
        /\ ~last.registered => Len(TfPosts) = 0

\* the second file of a cycle has been registered and its TF records refer
\* to the second STF record
C23_Witness ==
    /\ mode = "continuous"
    /\ last.handler = "file"
    /\ last.registered
    /\ cycle.done = 2
    /\ catalog.stf_files = 2
    /\ Len(TfPosts) >= 1
    /\ TfPosts[1].body.stf_file = "stf-uuid-2"
    /\ TfPosts[1].ok

\* the last call of find_recent_files: the directories watched, the files
\* returned, the entries of a directory that match a pattern
WatchedDirs ==
    {unit.config.watch_directories[k] : k \in 1..Len(unit.config.watch_directories)}
Returned == {unit.out.matching_files[k] : k \in 1..Len(unit.out.matching_files)}
ScanFailed(d) == ~unit.fs[d].exists \/ unit.fs[d].raises_at > 0
MatchingRegular(d) ==
    {unit.fs[d].entries[k].path : k \in
        {j \in 1..Len(unit.fs[d].entries) :
            /\ unit.fs[d].entries[j].regular
            /\ \E p \in 1..Len(unit.config.file_patterns) :
                  unit.config.file_patterns[p] \in unit.fs[d].entries[j].patterns}}

\* C24, as stated: a watch directory that does not exist, or whose scan
\* raises, contributes no file to the result, is logged, and every other
\* configured directory is still scanned and its matching regular files
\* returned (here with the lookback filter disabled).
C24_AsStated ==
    unit.handler = "find_recent_files" =>
        /\ \A d \in WatchedDirs : ScanFailed(d) => \A f \in Returned : f[1] # d
        /\ unit.out.errors = Cardinality({d \in WatchedDirs : ScanFailed(d)})
        /\ unit.config.lookback_time = 0 =>
              \A d \in WatchedDirs : ~ScanFailed(d) => MatchingRegular(d) \subseteq Returned

\* the scan of d1 raised after two of its entries, both directories were
\* watched, and a file of d1 is in the result together with files of d2
C24_Witness ==
    /\ unit.handler = "find_recent_files"
    /\ WatchedDirs = {"d1", "d2"}
    /\ unit.fs["d1"].raises_at = 3
    /\ ~ScanFailed("d2") /\ unit.fs["d2"].entries # <<>>
    /\ unit.out.errors = 1
    /\ <<"d1", "old.stf">> \in Returned
    /\ <<"d2", "NEW.STF">> \in Returned

\* the matching regular files of a directory that pass the lookback filter
\* of the last call, the instants being in seconds and the window in minutes
InWindow(d) ==
    {unit.fs[d].entries[k].path : k \in
        {j \in 1..Len(unit.fs[d].entries) :
            /\ unit.fs[d].entries[j].path \in MatchingRegular(d)
            /\ \/ unit.config.lookback_time = 0
               \/ unit.fs[d].entries[j].ctime >= unit.now - 60 * unit.config.lookback_time}}

\* C25: find_recent_files returns exactly the regular files that match a
\* configured pattern in an existing watch directory (one whose scan raised
\* nothing), filtered by the lookback window: with lookback_time > 0 a file
\* is returned iff its creation time is not before now - lookback_time
\* minutes, with lookback_time = 0 every matching regular file is returned.
C25_LookbackFilter ==
    unit.handler = "find_recent_files" =>
        /\ \A d \in WatchedDirs :
              ~ScanFailed(d) => {f \in Returned : f[1] = d} = InWindow(d)
        /\ \A f \in Returned : f[1] \in WatchedDirs /\ f \in InWindow(f[1])

\* with a window of 30 minutes, the file created exactly at the cutoff is
\* returned, the one created a second earlier is not
C25_Witness ==
    /\ unit.handler = "find_recent_files"
    /\ unit.config.lookback_time = 30
    /\ unit.config.watch_directories = <<"d1">>
    /\ ~ScanFailed("d1")
    /\ Returned = {<<"d1", "edge.stf">>, <<"d1", "NEW.STF">>}

\* what message-driven handling does with an stf_ready event whose payload
\* is the one synthesized for the file just registered, under the same
\* fates of the TF calls and the same state of the random source
AsInboundEvent ==
    on_message("stf_ready", last.message_data, config, track_workflow,
               CycleEnv(StfOk, last.tf), last.rng)

\* C26: for a file registered in continuous mode, the TF registrations and
\* the tf_file_registered notifications are, in the same order, those that
\* message-driven handling produces for an stf_ready event with the same
\* payload.
C26_SameSemantics ==
    (mode = "continuous" /\ last.handler = "file" /\ last.registered) =>
        /\ TfPosts = SelectSeq(AsInboundEvent.api, IsTfPost)
        /\ sent = AsInboundEvent.sent
        /\ last.tf_files_registered = AsInboundEvent.tf_files_registered
        /\ StageCalls = SelectSeq(AsInboundEvent.api, IsStageCall)
        /\ rng = AsInboundEvent.rng

\* a file registered by a scan cycle, with two TF registrations and two
\* notifications
C26_Witness ==
    /\ mode = "continuous"
    /\ last.handler = "file"
    /\ last.registered
    /\ Len(TfPosts) = 2
    /\ Len(sent) = 2
    /\ sent = AsInboundEvent.sent

\* the catalog calls of the REST surface: the lookup and the creation of a
\* run, the creation of an STF record, of a TF record and of a workflow
\* stage, and the update of the stage whose creation precedes it in the
\* calls of the event and returned the identifier used
IsRunLookup(c) == c.method = "GET" /\ c.path = "/runs/?run_number" /\ c.id = None
IsCreation(c) ==
    /\ c.method = "POST"
    /\ c.path \in {"/runs/", "/stf-files/", "/fastmon-files/", "/workflow-stages/"}
    /\ c.id = None
IsUpdateOfCreatedStage(i) ==
    /\ IsStagePatch(api[i])
    /\ api[i].id = StageId
    /\ \E j \in 1..(i - 1) : IsStagePost(api[j]) /\ api[j].ok

\* C27, as stated: every catalog call the agent has made is one of
\* GET /runs/?run_number=<n>, POST /runs/, POST /stf-files/,
\* POST /fastmon-files/, POST /workflow-stages/ and
\* PATCH /workflow-stages/{id}/ with the id of a stage it created.
C27_AsStated ==
    \A i \in DOMAIN api :
        IsRunLookup(api[i]) \/ IsCreation(api[i]) \/ IsUpdateOfCreatedStage(i)

\* a stage was created, the answer carried no id, and a PATCH was issued on
\* the path built from the missing id
C27_Witness ==
    /\ last.handler = "on_message"
    /\ \E i \in DOMAIN api :
          /\ IsStagePatch(api[i])
          /\ api[i].id = None
          /\ api[i].body.status = "fastmon_processing"
          /\ \E j \in 1..(i - 1) : IsStagePost(api[j]) /\ api[j].ok

\* the first entries of a list, up to a limit
FirstOf(list, limit) == SubSeq(list, 1, IF Len(list) < limit THEN Len(list) ELSE limit)

\* C28: a scan cycle registers at most 2 STF files, whatever the number of
\* files discovered and the selection fraction: the sampler runs only when
\* selection_fraction < 1.0, the batch is cut to its first 2 entries, and
\* when at least one file is discovered and no call fails at least one
\* file is registered.
C28_AtMostTwo ==
    unit.handler = "scan_cycle" =>
        LET n == Len(unit.recent_files)
            f == unit.config["selection_fraction"]
            floor == (n * f) \div 100
            count == IF floor >= 1 THEN floor ELSE 1
            drawn == [k \in 1..count |-> unit.recent_files[unit.pick[k]]]
        IN /\ Len(unit.out.selected) <= 2
           /\ unit.out.registered <= 2
           /\ unit.out.registered <= Len(unit.out.selected)
           /\ (n > 0 /\ f >= 100) => unit.out.selected = FirstOf(unit.recent_files, 2)
           /\ (n > 0 /\ f < 100) => unit.out.selected = FirstOf(drawn, 2)
           /\ (n > 0 /\ ~unit.out.raised) =>
                 (unit.out.registered >= 1 /\ unit.out.registered = Len(unit.out.selected))
           /\ unit.out.raised <=> unit.fail_at \in 1..Len(unit.out.selected)

\* four files were found, three of them drawn by the sampler, and the first
\* two of the three were registered
C28_Witness ==
    /\ unit.handler = "scan_cycle"
    /\ Len(unit.recent_files) = 4
    /\ unit.config["selection_fraction"] = 75
    /\ Len(unit.pick) = 3
    /\ ~unit.out.raised
    /\ unit.out.registered = 2
    /\ unit.out.selected = <<unit.recent_files[unit.pick[1]], unit.recent_files[unit.pick[2]]>>

\* the last call of simulate_tf_subsamples was given a size that is a
\* non-negative number (or none, the size then being 0)
NonNegativeStfSize ==
    /\ unit.handler = "simulate_tf_subsamples"
    /\ GetOr(unit.stf_file, "size_bytes", 0) >= 0

\* C29, as stated: every TF descriptor produced by simulate_tf_subsamples
\* has a non-negative file_size_bytes, for every non-negative STF size,
\* every tf_size_fraction in [0, 1] and every value of the jitter factor.
C29_AsStated ==
    NonNegativeStfSize =>
        \A k \in DOMAIN unit.out.tf_subsamples :
            unit.out.tf_subsamples[k].file_size_bytes >= 0

\* an STF of 1000 bytes, the default fraction, a negative draw of the
\* jitter: the descriptor has a negative size
C29_Witness ==
    /\ NonNegativeStfSize
    /\ GetOr(unit.stf_file, "size_bytes", 0) = 1000
    /\ Gauss(unit.rng) < 0
    /\ Len(unit.out.tf_subsamples) >= 1
    /\ unit.out.tf_subsamples[1].file_size_bytes = 0 - 30

\* the TF registrations of the event that succeeded, in the order issued
RegisteredTfPosts == SelectSeq(TfPosts, LAMBDA c : c.ok)

\* C30: the completion update of a workflow stage carries an output summary
\* whose tf_files_created is the number of TF records successfully
\* registered for the event and whose tf_filenames lists exactly the
\* filenames of those records, failed registrations excluded.
C30_OutputSummary ==
    \A i \in DOMAIN CompletionCalls :
        LET output_message == CompletionCalls[i].body.output_message
        IN /\ output_message.tf_files_created = Len(RegisteredTfPosts)
           /\ Len(output_message.tf_filenames) = Len(RegisteredTfPosts)
           /\ \A k \in DOMAIN RegisteredTfPosts :
                 output_message.tf_filenames[k] = RegisteredTfPosts[k].body.tf_filename

\* of two TF registrations the first failed; the completion update counts
\* one TF and names the second
C30_Witness ==
    /\ Len(CompletionCalls) = 1
    /\ Len(TfPosts) = 2
    /\ ~TfPosts[1].ok
    /\ TfPosts[2].ok
    /\ CompletionCalls[1].body.output_message.tf_files_created = 1
    /\ CompletionCalls[1].body.output_message.tf_filenames = <<TfPosts[2].body.tf_filename>>

\* C31: there is no de-duplication: a file that occurs twice in what is
\* discovered and selected is registered once per occurrence, each
\* occurrence with its own POST /stf-files/, its own STF record and its own
\* TF registrations and notifications; every registration of the agent
\* creates a record.
C31_NoDeduplication ==
    mode = "continuous" =>
        /\ catalog.stf_files = files_processed
        /\ (last.handler = "scan" /\ last.recent_files = <<PathC, PathC>>
                /\ config["selection_fraction"] >= 100) =>
              cycle.selected = <<PathC, PathC>>
        /\ (last.handler = "file" /\ last.registered /\ cycle.done = 2
                /\ cycle.selected[1] = cycle.selected[2]) =>
              /\ Len(StfPosts) = 1
              /\ StfPosts[1].ok
              /\ StfPosts[1].body.stf_filename = NameOf(cycle.selected[1])
              /\ catalog.stf_files >= 2
              /\ last.message_data.file_id = "stf-uuid-" \o ToString(catalog.stf_files)
              /\ Len(TfPosts) = FilesPerStf
              /\ Len(sent) = Len(SelectSeq(TfPosts, LAMBDA c : c.ok))

\* the second occurrence of a file in one batch has been registered as a
\* second STF record, with its TF registration and notification
C31_Witness ==
    /\ mode = "continuous"
    /\ last.handler = "file"
    /\ last.registered
    /\ cycle.selected = <<PathC, PathC>>
    /\ cycle.done = 2
    /\ catalog.stf_files = 2
    /\ Len(StfPosts) = 1
    /\ Len(TfPosts) >= 1
    /\ TfPosts[1].body.stf_file = "stf-uuid-2"
    /\ Len(sent) >= 1

\* the run of the last call of record_stf_file could not be resolved
RunResolutionFails ==
    \/ unit.env.lookup = "fail"
    \/ ~unit.env.create /\ ~(unit.file_path = PathA /\ 42 \in unit.cat.runs)
IsRunCall(c) == c.path \in {"/runs/?run_number", "/runs/"}

\* C32: record_stf_file stats the file, resolves the run, computes the
\* optional checksum and posts the record, in that order, and a failure
\* stops it before the later steps: after a stat failure no catalog call is
\* made, after a run-resolution failure no checksum is computed and no
\* POST /stf-files/ is issued, and every failure is re-raised with no
\* record returned.
C32_StepOrder ==
    unit.handler = "record_stf_file" =>
        /\ ~unit.env.stat =>
              (unit.out.raised /\ unit.out.calls = <<>> /\ unit.out.errors = 1)
        /\ (unit.env.stat /\ RunResolutionFails) =>
              /\ unit.out.raised
              /\ Len(UnitStfPosts) = 0
              /\ Len(unit.out.calls) >= 1
              /\ unit.out.errors = 2
        /\ (unit.env.stat /\ ~RunResolutionFails /\ ~unit.env.post) =>
              (unit.out.raised /\ Len(UnitStfPosts) = 1 /\ ~UnitStfPosts[1].ok)
        /\ \A i, j \in DOMAIN unit.out.calls :
              (unit.out.calls[i].path = "/stf-files/" /\ IsRunCall(unit.out.calls[j])) =>
                 (j < i /\ unit.out.calls[j].ok)
        /\ unit.out.raised => (unit.out.stf_file = EmptyDict /\ unit.out.errors >= 1)
        /\ unit.out.raised => unit.out.cat.stf_files = unit.cat.stf_files

\* the stat failed although every later step would have succeeded: nothing
\* was asked of the catalog
C32_Witness ==
    /\ unit.handler = "record_stf_file"
    /\ ~unit.env.stat
    /\ unit.env.lookup = "list" /\ unit.env.create /\ unit.env.read /\ unit.env.post
    /\ unit.out.raised
    /\ unit.out.calls = <<>>
    /\ unit.out.stf_file = EmptyDict

\* the stage-creating POST of the event succeeded and returned a stage id
StageCreatedWithId ==
    \E i \in DOMAIN StageCalls :
        /\ IsStagePost(StageCalls[i])
        /\ StageCalls[i].ok
        /\ last.handler = "on_message"
        /\ last.env.stage = "ok"

\* C33: the fastmon_complete PATCH is issued if and only if the
\* stage-creating POST succeeded and returned a stage id, whatever the
\* outcome of the fastmon_processing PATCH: after a failed processing PATCH
\* the completion is still issued, and after a failed create, or a create
\* that returned no id, it is not.
C33_CompletionIffStageId ==
    Sampled =>
        /\ StageCreatedWithId <=> Len(CompletionCalls) = 1
        /\ ~StageCreatedWithId => Len(CompletionCalls) = 0
        /\ \A i \in DOMAIN CompletionCalls :
              /\ CompletionCalls[i].id = StageId
              /\ CompletionCalls[i] = api[Len(api)]

\* the processing PATCH failed after a successful create, and the completion
\* PATCH was issued: the stage is written received, then complete
C33_Witness ==
    /\ last.handler = "on_message"
    /\ StageCreatedWithId
    /\ Len(StageCalls) = 3
    /\ StageCalls[2].body.status = "fastmon_processing"
    /\ ~StageCalls[2].ok
    /\ StageCalls[3].body.status = "fastmon_complete"
    /\ StageCalls[3].ok

\* the calls of sample_timeframes made by a step: one for an stf_ready
\* frame handled, one for a file of a scan cycle that was registered
InvokedInStep ==
    IF pc = "idle" /\ pc' = "handled"
    THEN (IF last'.msg_type = "stf_ready" THEN 1 ELSE 0)
    ELSE IF pc = "file" THEN (IF last'.registered THEN 1 ELSE 0)
    ELSE 0

\* C34: stf_messages_processed and processing_stats['total_stf_messages']
\* are equal in every state, every step adds to both the number of calls of
\* sample_timeframes it made (events rejected for a missing filename
\* included), and no counter ever decreases.
C34_CountersAgree ==
    [][/\ stf_messages_processed' = processing_stats'.total_stf_messages
       /\ stf_messages_processed = processing_stats.total_stf_messages
       /\ stf_messages_processed' = stf_messages_processed + InvokedInStep
       /\ files_processed' >= files_processed
       /\ processing_stats'.total_stf_messages >= processing_stats.total_stf_messages
       /\ processing_stats'.total_tf_files_created >= processing_stats.total_tf_files_created
       /\ processing_stats'.total_files >= processing_stats.total_files]_vars

\* an stf_ready event without a filename has been rejected and counted
C34_Witness ==
    /\ last.handler = "on_message"
    /\ last.msg_type = "stf_ready"
    /\ IsMapping(last.message_data)
    /\ "filename" \notin DOMAIN last.message_data
    /\ last.tf_files_registered = <<>>
    /\ stf_messages_processed >= 1
    /\ stf_messages_processed = processing_stats.total_stf_messages

\* a step that handles a frame or a file of a scan cycle
HandlesEvent == (pc = "idle" /\ pc' = "handled") \/ pc = "file"

\* C35: total_tf_files_created grows, with every event, by the number of
\* TF registrations that returned a non-empty record, which is the number
\* of notification attempts; a notification is attempted for a registered
\* TF only, in the order of the registrations; and the list returned by
\* sample_timeframes has one entry per descriptor, of which exactly the
\* non-empty ones are counted.
C35_CreatedEqualsNotified ==
    [][LET posts == SelectSeq(api', IsTfPost)
           registered == SelectSeq(posts, LAMBDA c : c.ok)
           grown == processing_stats'.total_tf_files_created
                       - processing_stats.total_tf_files_created
       IN IF HandlesEvent
          THEN /\ grown = Len(registered)
               /\ Len(sent') = Len(registered)
               /\ \A k \in DOMAIN sent' :
                     /\ sent'[k].message.tf_filename = registered[k].body.tf_filename
                     /\ sent'[k].message.msg_type = "tf_file_registered"
               /\ Len(last'.tf_files_registered) = Len(posts)
               /\ \A k \in DOMAIN posts :
                     NonEmpty(last'.tf_files_registered[k]) <=> posts[k].ok
               /\ last'.tf_files_created = Len(registered)
          ELSE grown = 0]_vars

\* of two descriptors one was registered and notified, the other failed:
\* two entries returned, one counted, one notification
C35_Witness ==
    /\ Sampled
    /\ Len(TfPosts) = 2
    /\ TfPosts[1].ok
    /\ ~TfPosts[2].ok
    /\ Len(sent) = 1
    /\ Len(last.tf_files_registered) = 2
    /\ last.tf_files_created = 1
    /\ processing_stats.total_tf_files_created = 1

\* the frame handled in this step is an stf_ready event, a mapping, whose
\* filename is missing or empty
RejectsForFilename ==
    /\ pc = "idle"
    /\ pc' = "handled"
    /\ last'.msg_type = "stf_ready"
    /\ IsMapping(last'.message_data)
    /\ ~Truthy(Get(last'.message_data, "filename"))

\* C36: an stf_ready event without a filename (missing or empty) is
\* rejected before any effect on external systems: sample_timeframes
\* returns the empty list, no catalog call is made (no workflow stage even
\* with tracking enabled and a workflow id), no notification is sent, no
\* ERROR status is reported, and both message counters are incremented.
C36_NoFilenameRejected ==
    [][RejectsForFilename
         => /\ last'.tf_files_registered = <<>>
            /\ ~last'.raised
            /\ api' = <<>>
            /\ sent' = <<>>
            /\ status' = <<>>
            /\ stf_messages_processed' = stf_messages_processed + 1
            /\ processing_stats'.total_stf_messages
                  = processing_stats.total_stf_messages + 1
            /\ processing_stats'.total_tf_files_created
                  = processing_stats.total_tf_files_created]_vars

\* a second event, with an empty filename and a workflow id, was rejected
\* by an agent that tracks workflow stages
C36_Witness ==
    /\ last.handler = "on_message"
    /\ last.msg_type = "stf_ready"
    /\ IsMapping(last.message_data)
    /\ Get(last.message_data, "filename") = ""
    /\ Get(last.message_data, "workflow_id") = "wf-1"
    /\ track_workflow
    /\ last.tf_files_registered = <<>>
    /\ api = <<>>
    /\ stf_messages_processed = 2
    /\ processing_stats.total_stf_messages = 2

\* the step in which the registration of a file of the cycle fails
RegistrationFails == pc = "file" /\ ~last'.registered

\* C37: a scan cycle is not atomic.  With every file of the cycle
\* files_processed, the STF records of the catalog and the files done grow
\* together; when the registration of a file fails, what the files before
\* it produced is kept (STF records, TF count, TF list of the cycle),
\* the cycle reports exactly one ERROR and no OK and returns None; and
\* files_processed never exceeds processing_stats['total_files'].
C37_CycleNotAtomic ==
    [][/\ pc = "file"
          => /\ files_processed' - files_processed = cycle'.done - cycle.done
             /\ catalog'.stf_files - catalog.stf_files = cycle'.done - cycle.done
       /\ RegistrationFails
          => /\ last'.raised
             /\ cycle'.failed
             /\ cycle'.done = cycle.done
             /\ cycle'.tf_files_registered = cycle.tf_files_registered
             /\ files_processed' = files_processed
             /\ catalog'.stf_files = catalog.stf_files
             /\ processing_stats' = processing_stats
             /\ sent' = <<>>
             /\ status' = <<"ERROR">>
             /\ cycle'.returned = "None"
             /\ pc' = "heartbeat"
       /\ files_processed' <= processing_stats'.total_files]_vars

\* the second file of a cycle failed after the first was registered and
\* sampled: one file counted, one STF record and its TF kept, one ERROR
C37_Witness ==
    /\ mode = "continuous"
    /\ last.handler = "file"
    /\ ~last.registered
    /\ cycle.failed
    /\ Len(cycle.selected) = 2
    /\ cycle.done = 1
    /\ files_processed = 1
    /\ catalog.stf_files = 1
    /\ processing_stats.total_tf_files_created >= 1
    /\ Len(cycle.tf_files_registered) >= 1
    /\ status = <<"ERROR">>
    /\ cycle.returned = "None"

IsRunCreate(c) == c.method = "POST" /\ c.path = "/runs/"

\* C38: against a catalog that reflects earlier creations at most one Run
\* is created per run number.  A file of a cycle leads to at most one
\* POST /runs/, issued right after a lookup of the same run number that
\* succeeded, and only for a run number the catalog does not hold; the
\* runs of the catalog grow by the run numbers created and by nothing
\* else, so a later file with the same run number reuses the run.
C38_OneRunPerNumber ==
    [][pc = "file"
         => LET creates == SelectSeq(api', IsRunCreate)
                created == {api'[k].body.run_number :
                               k \in {j \in DOMAIN api' : IsRunCreate(api'[j]) /\ api'[j].ok}}
            IN /\ Len(creates) <= 1
               /\ Len(SelectSeq(api', IsRunLookup)) <= 1
               /\ \A k \in DOMAIN api' :
                     IsRunCreate(api'[k])
                        => /\ k = 2
                           /\ IsRunLookup(api'[1])
                           /\ api'[1].ok
                           /\ api'[1].body.run_number = api'[k].body.run_number
                           /\ api'[k].body.run_number = RunNumberOf(last'.file_path)
                           /\ api'[k].body.run_number \notin catalog.runs
               /\ catalog'.runs = catalog.runs \cup created]_vars

\* a second file with the run number of the first was registered with a
\* lookup alone: two STF records, one run
C38_Witness ==
    /\ last.handler = "file"
    /\ last.registered
    /\ catalog.stf_files = 2
    /\ catalog.runs = {RunNumberOf(last.file_path)}
    /\ Len(SelectSeq(api, IsRunLookup)) = 1
    /\ SelectSeq(api, IsRunCreate) = <<>>

\* the event is one that _handle_sse_event hands to
\* _handle_tf_file_notification: neither connected nor heartbeat, with data
\* that decodes to a dict whose msg_type is tf_file_registered
TfFileRegisteredEvent(event_lines) ==
    LET loaded == json_loads(LastLine(event_lines, "data: ", Raw("")))
    IN /\ LastLine(event_lines, "event: ", Raw("message")).raw \notin {"connected", "heartbeat"}
       /\ ~loaded.raised
       /\ IsMapping(loaded.value)
       /\ GetOr(loaded.value, "msg_type", "unknown") = "tf_file_registered"
RECURSIVE SumTfCount(_, _)
SumTfCount(run_statistics, run_numbers) ==
    IF run_numbers = {} THEN 0
    ELSE LET r == CHOOSE x \in run_numbers : TRUE
         IN run_statistics[r].tf_count + SumTfCount(run_statistics, run_numbers \ {r})
StatisticsOf(c) == <<c.tf_files_received, c.total_file_size, c.run_statistics>>

\* C39: the statistics of the display client change only on
\* tf_file_registered events: every other event (connected, heartbeat,
\* another message type, data that is not JSON) leaves tf_files_received,
\* total_file_size and run_statistics as they were; each tf_file_registered
\* event handled increases tf_files_received by exactly 1; and the sum of
\* tf_count over the runs of run_statistics is at most tf_files_received.
C39_StatisticsOnTfEventsOnly ==
    [][/\ scans' = scans + 1
          => IF TfFileRegisteredEvent(last'.event_lines)
             THEN client'.tf_files_received = client.tf_files_received + 1
             ELSE StatisticsOf(client') = StatisticsOf(client)
       /\ scans' = scans => StatisticsOf(client') = StatisticsOf(client)
       /\ SumTfCount(client'.run_statistics, DOMAIN client'.run_statistics)
             <= client'.tf_files_received]_vars

\* three notifications were handled, two of one run and one without a run
\* number: three files received, a tf_count of two
C39_Witness ==
    /\ mode = "client"
    /\ client.tf_files_received = 3
    /\ DOMAIN client.run_statistics = {42}
    /\ client.run_statistics[42].tf_count = 2
    /\ client.total_file_size = 300
    /\ last.handler = "sse_event"
    /\ TfFileRegisteredEvent(last.event_lines)

====
